---- MODULE Spec2Model ----
(***************************************************************************)
(* A model of euporie's table engine                                       *)
(* (src/euporie/core/formatted_text/table.py): the sparse, auto-vivifying  *)
(* row / column / cell maps, the table-building operations, the column     *)
(* width negotiation with its memoisation, and the renderer.               *)
(*                                                                         *)
(* Objects live in heaps (sequences indexed by object identity):           *)
(*   cells  Cell and SpacerCell objects; identity 0 stands for a DummyCell *)
(*   rcs    Row and Col objects; identity 0 stands for a DummyRow/DummyCol *)
(*   dicts  the `_cells` dictionaries (a Row/Col holds a reference, since  *)
(*          add_row / add_col make two objects share one dictionary)       *)
(*   dims   prompt_toolkit Dimension objects                               *)
(* A Python dict / defaultdict is a function whose DOMAIN is its key set.  *)
(***************************************************************************)
EXTENDS Integers, Sequences, FiniteSets, TLC

VARIABLES
    cells,      \* heap of Cell / SpacerCell objects
    rcs,        \* heap of Row / Col objects
    dicts,      \* heap of RowCol._cells dictionaries
    trows,      \* Table._rows
    tcols,      \* Table._cols
    tborder,    \* Table.border_line (one LineStyle on the four edges)
    tcollapse,  \* Table.collapse_empty_borders
    texpand,    \* Table.expand
    dims,       \* heap of Dimension objects; dims[1] is Table._width
    cache,      \* the lru_cache of Table._calculate_col_widths
    last,       \* what the most recent call did and returned
    prev        \* the value of `last` before the most recent call

vars == <<cells, rcs, dicts, trows, tcols, tborder, tcollapse, texpand,
          dims, cache, last, prev>>

----------------------------------------------------------------------------
(* Bounds of the exploration *)

\* the cells the caller makes (the spacers of their spans come on top)
MaxCells == 3

\* the Row and Col objects the caller makes (the table makes others)
MaxRCs == 2

\* colspan and rowspan of the cells of the table under construction
Spans == {1, 2}

\* the constructor's lists: their total length and the length of a member
MaxInitLists == MaxRCs

MaxInitLen == MaxCells - 1

\* the columns of the terminal, the maximum of a table's default width
TermCols == 12

----------------------------------------------------------------------------
(* Generic helpers *)

SetMax(S) == CHOOSE x \in S : \A y \in S : y <= x

SetMin(S) == CHOOSE x \in S : \A y \in S : x <= y

IMax(a, b) == IF a >= b THEN a ELSE b

\* With(e, LAMBDA x : body) is LET x == e IN body, e being evaluated once
With(e, F(_)) == F(e)

EmptyMap == [k \in {} |-> 0]

Put(f, k, v) == (k :> v) @@ f

RECURSIVE SeqSum(_)
SeqSum(s) == IF Len(s) = 0 THEN 0 ELSE s[1] + SeqSum(Tail(s))

Values(f) == {f[k] : k \in DOMAIN f}

----------------------------------------------------------------------------
(* Line styles, ordered by severity *)

NoLine == 0

InvisibleLine == 1

ThinLine == 2

ThickLine == 3

Visible(ls) == ls >= ThinLine

----------------------------------------------------------------------------
(* The object store.  Operations are written as functions from a store to *)
(* a store (and a value), so that a handler is the composition of the     *)
(* statements of its code, side effects of reads included.                *)

DUMMY == 0

Store == [cells |-> cells, rcs |-> rcs, dicts |-> dicts,
          trows |-> trows, tcols |-> tcols]

\* Cell.__init__
\* width: the explicit width (0 for None); text: the width of the cell's
\* one line of text; bl: the border_line argument, one LineStyle for the
\* four edges; lines: the lines of the text (1 + its line breaks), one
\* unless said otherwise
NewCell(colspan, rowspan, width, text, bl) ==
    [kind |-> "cell", row |-> 0, col |-> 0, colspan |-> colspan,
     rowspan |-> rowspan, expands |-> 0, width |-> width, text |-> text,
     bl |-> bl, lines |-> 1]

\* SpacerCell.__init__
NewSpacer(S, expands, row, col) ==
    [kind |-> "spacer", row |-> row, col |-> col, colspan |-> 1,
     rowspan |-> 1, expands |-> expands, width |-> 0, text |-> 0,
     bl |-> S.cells[expands].bl, lines |-> 1]

IsSpacer(S, c) == c # DUMMY /\ S.cells[c].kind = "spacer"

\* RowCol.__init__ without cells: a new Row / Col with its own empty dict.
\* attached: its table is the Table (not a DummyTable); user: the caller
\* made it (the table's defaultdicts make the others)
AllocRC(S, type, attached) ==
    [S EXCEPT !.rcs = Append(@, [type |-> type, attached |-> attached,
                                 user |-> ~attached, bl |-> NoLine,
                                 d |-> Len(S.dicts) + 1]),
              !.dicts = Append(@, EmptyMap)]

\* self._rows[i] on the defaultdict(partial(Row, self))
GetRow(S, i) ==
    IF i \in DOMAIN S.trows
    THEN [s |-> S, v |-> S.trows[i]]
    ELSE LET S1 == AllocRC(S, "row", TRUE)
         IN [s |-> [S1 EXCEPT !.trows = Put(@, i, Len(S1.rcs))],
             v |-> Len(S1.rcs)]

\* self._cols[i] on the defaultdict(partial(Col, self))
GetCol(S, i) ==
    IF i \in DOMAIN S.tcols
    THEN [s |-> S, v |-> S.tcols[i]]
    ELSE LET S1 == AllocRC(S, "col", TRUE)
         IN [s |-> [S1 EXCEPT !.tcols = Put(@, i, Len(S1.rcs))],
             v |-> Len(S1.rcs)]

\* rc._cells[k] = c
SetCell(S, rc, k, c) ==
    [S EXCEPT !.dicts[S.rcs[rc].d] = Put(@, k, c)]

CellsOf(S, rc) == S.dicts[S.rcs[rc].d]

\* RowCol.cells: [self._cells[i] for i in range(len(self._cells))] on the
\* defaultdict(lambda: DummyCell()): a missing index below len is created
CellsFill(f) ==
    LET n == Cardinality(DOMAIN f)
    IN f @@ [k \in (0 .. n - 1) \ DOMAIN f |-> DUMMY]

CellsList(f) ==
    LET n == Cardinality(DOMAIN f)
        g == CellsFill(f)
    IN [i \in 1 .. n |-> g[i - 1]]

ReadCells(S, rc) ==
    [s |-> [S EXCEPT !.dicts[S.rcs[rc].d] = CellsFill(@)],
     v |-> CellsList(CellsOf(S, rc))]

\* Table.rows: [self._rows[i] for i in range(len(self._rows))]
RECURSIVE ReadRowsFrom(_, _, _, _)
ReadRowsFrom(S, i, n, acc) ==
    IF i >= n THEN [s |-> S, v |-> acc]
    ELSE LET g == GetRow(S, i)
         IN ReadRowsFrom(g.s, i + 1, n, Append(acc, g.v))

ReadRows(S) == ReadRowsFrom(S, 0, Cardinality(DOMAIN S.trows), <<>>)

\* Table.cols: [self._cols[i] for i in range(len(self._cols))]
RECURSIVE ReadColsFrom(_, _, _, _)
ReadColsFrom(S, i, n, acc) ==
    IF i >= n THEN [s |-> S, v |-> acc]
    ELSE LET g == GetCol(S, i)
         IN ReadColsFrom(g.s, i + 1, n, Append(acc, g.v))

ReadCols(S) == ReadColsFrom(S, 0, Cardinality(DOMAIN S.tcols), <<>>)

\* list.index(x): the first position of x (0-based), or -1 for ValueError
IndexOf(list, x) ==
    IF \E i \in 1 .. Len(list) : list[i] = x
    THEN SetMin({i \in 1 .. Len(list) : list[i] = x}) - 1
    ELSE -1

----------------------------------------------------------------------------
(* RowCol.add_cell *)

\* a colspan loop that stores each spacer in the row's map only, without
\* `spacer.col._cells[row_index] = spacer`: the registration C6 is about
RECURSIVE ColspanLoopRowOnly(_, _, _, _, _)
ColspanLoopRowOnly(S, c, ri, ci, i) ==
    IF i >= S.cells[c].colspan THEN S
    ELSE LET gc == GetCol(S, ci + i)
             sp == Len(gc.s.cells) + 1
             S1 == [gc.s EXCEPT !.cells =
                        Append(@, NewSpacer(gc.s, c, S.cells[c].row, gc.v))]
             S2 == SetCell(S1, S.cells[c].row, ci + i, sp)
         IN ColspanLoopRowOnly(S2, c, ri, ci, i + 1)

\* the colspan loop of add_cell: spacers along the cell's row
RECURSIVE ColspanLoop(_, _, _, _, _)
ColspanLoop(S, c, ri, ci, i) ==
    IF i >= S.cells[c].colspan THEN S
    ELSE LET gc == GetCol(S, ci + i)
             sp == Len(gc.s.cells) + 1
             S1 == [gc.s EXCEPT !.cells =
                        Append(@, NewSpacer(gc.s, c, S.cells[c].row, gc.v))]
             S2 == SetCell(S1, S.cells[c].row, ci + i, sp)
             S3 == SetCell(S2, gc.v, ri, sp)
         IN ColspanLoop(S3, c, ri, ci, i + 1)

\* the rowspan loop of add_cell: spacers along the cell's column
RECURSIVE RowspanLoop(_, _, _, _, _)
RowspanLoop(S, c, ri, ci, i) ==
    IF i >= S.cells[c].rowspan THEN S
    ELSE LET gr == GetRow(S, ri + i)
             sp == Len(gr.s.cells) + 1
             S1 == [gr.s EXCEPT !.cells =
                        Append(@, NewSpacer(gr.s, c, gr.v, S.cells[c].col))]
             S2 == SetCell(S1, S.cells[c].col, ri + i, sp)
             S3 == SetCell(S2, gr.v, ci, sp)
         IN RowspanLoop(S3, c, ri, ci, i + 1)

\* the index add_cell stores the new cell at
AddCellIndex(f) == SetMax({-1} \cup DOMAIN f) + 1

\* Row.new_cell(...): Cell(...) then add_cell with type_ = "row".
\* ok = FALSE stands for the ValueError of table.rows.index(self).
RowAddCell(S, R, rec) ==
    LET index == AddCellIndex(CellsOf(S, R))
        c == Len(S.cells) + 1
        S1 == [S EXCEPT !.cells = Append(@, [rec EXCEPT !.expands = c])]
        S2 == SetCell(S1, R, index, c)
        gc == GetCol(S2, index)
        S3 == [gc.s EXCEPT !.cells[c].row = R, !.cells[c].col = gc.v]
        rr == ReadRows(S3)
        ri == IndexOf(rr.v, R)
    IN IF ri < 0
       THEN [s |-> rr.s, ok |-> FALSE, c |-> c, ri |-> ri, ci |-> index]
       ELSE LET S4 == SetCell(rr.s, gc.v, ri, c)
                S5 == ColspanLoop(S4, c, ri, index, 1)
                S6 == RowspanLoop(S5, c, ri, index, 1)
            IN [s |-> S6, ok |-> TRUE, c |-> c, ri |-> ri, ci |-> index]

\* Col.new_cell(...): Cell(...) then add_cell with type_ = "col".
\* ok = FALSE stands for the ValueError of table.cols.index(self).
ColAddCell(S, C, rec) ==
    LET index == AddCellIndex(CellsOf(S, C))
        c == Len(S.cells) + 1
        S1 == [S EXCEPT !.cells = Append(@, [rec EXCEPT !.expands = c])]
        S2 == SetCell(S1, C, index, c)
        gr == GetRow(S2, index)
        S3 == [gr.s EXCEPT !.cells[c].row = gr.v, !.cells[c].col = C]
        rc == ReadCols(S3)
        ci == IndexOf(rc.v, C)
    IN IF ci < 0
       THEN [s |-> rc.s, ok |-> FALSE, c |-> c, ri |-> index, ci |-> ci]
       ELSE LET S4 == SetCell(rc.s, gr.v, ci, c)
                S5 == RowspanLoop(S4, c, index, ci, 1)
                S6 == ColspanLoop(S5, c, index, ci, 1)
            IN [s |-> S6, ok |-> TRUE, c |-> c, ri |-> index, ci |-> ci]

----------------------------------------------------------------------------
(* Table.add_row, Table.add_col *)

\* "for cell in row.cells: while i in cells: i += 1; cells[i] = cell"
RECURSIVE Merge(_, _, _, _)
Merge(f, list, k, i) ==
    IF k > Len(list) THEN f
    ELSE IF i \in DOMAIN f THEN Merge(f, list, k, i + 1)
    ELSE Merge(Put(f, i, list[k]), list, k + 1, i)

\* the indices whose row (column) holds nothing but SpacerCells
Unfilled(S, m) ==
    {i \in DOMAIN m : \A k \in DOMAIN CellsOf(S, m[i]) :
                          IsSpacer(S, CellsOf(S, m[i])[k])}

\* the index add_row / add_col puts the new row / column at
InsertIndex(S, m) ==
    LET a == SetMin(Unfilled(S, m) \cup {Cardinality(DOMAIN m)})
        b == SetMax({-1} \cup DOMAIN m) + 1
    IN IF a <= b THEN a ELSE b

AddRow(S, R) ==
    LET S0 == [S EXCEPT !.rcs[R].attached = TRUE]
        index == InsertIndex(S0, S0.trows)
        gr == GetRow(S0, index)
        rd == ReadCells(gr.s, R)
        D == rd.s.rcs[gr.v].d
        S1 == [rd.s EXCEPT !.dicts[D] = Merge(@, rd.v, 1, 0)]
    IN [s |-> [S1 EXCEPT !.rcs[R].d = D, !.trows = Put(@, index, R)],
        index |-> index]

AddCol(S, C) ==
    LET S0 == [S EXCEPT !.rcs[C].attached = TRUE]
        index == InsertIndex(S0, S0.tcols)
        gc == GetCol(S0, index)
        rd == ReadCells(gc.s, C)
        D == rd.s.rcs[gc.v].d
        S1 == [rd.s EXCEPT !.dicts[D] = Merge(@, rd.v, 1, 0)]
    IN [s |-> [S1 EXCEPT !.rcs[C].d = D, !.tcols = Put(@, index, C)],
        index |-> index]

\* Row(cells=[...]) / Col(cells=[...]) with n new default cells, not yet
\* in a table: the cells' row (col) back-reference is the new object
RECURSIVE RCWithCells(_, _, _, _)
RCWithCells(S, type, n, rec) ==
    IF n = 0 THEN AllocRC(S, type, FALSE)
    ELSE LET S1 == RCWithCells(S, type, n - 1, rec)
             R == Len(S1.rcs)
             c == Len(S1.cells) + 1
             cell == IF type = "row"
                     THEN [rec EXCEPT !.expands = c, !.row = R]
                     ELSE [rec EXCEPT !.expands = c, !.col = R]
         IN SetCell([S1 EXCEPT !.cells = Append(@, cell)], R, n - 1, c)

----------------------------------------------------------------------------
(* Table.__init__ *)

EmptyStore == [cells |-> <<>>, rcs |-> <<>>, dicts |-> <<>>,
               trows |-> EmptyMap, tcols |-> EmptyMap]

\* Cell(text): the default cell, one word of text
DefaultCell == NewCell(1, 1, 0, 1, NoLine)

\* the caller's [Row(cells=[...]), ...] (or Col), the objects made in order;
\* acc is the list of their identities
RECURSIVE MakeRCs(_, _, _, _, _)
MakeRCs(S, type, lens, k, acc) ==
    IF k > Len(lens) THEN [s |-> S, v |-> acc]
    ELSE LET S1 == RCWithCells(S, type, lens[k], DefaultCell)
         IN MakeRCs(S1, type, lens, k + 1, Append(acc, Len(S1.rcs)))

\* defaultdict(partial(Row, self), enumerate(rows)); row.table = self
Enumerate(list) == [i \in 0 .. Len(list) - 1 |-> list[i + 1]]

RECURSIVE AttachAll(_, _, _)
AttachAll(S, list, k) ==
    IF k > Len(list) THEN S
    ELSE AttachAll([S EXCEPT !.rcs[list[k]].attached = TRUE], list, k + 1)

\* Table.sync_rows_to_cols, rows and their cells taken in key order
RECURSIVE SyncRowsToCols(_, _, _)
SyncRowsToCols(S, i, j) ==
    IF DOMAIN S.trows = {} \/ i > SetMax(DOMAIN S.trows) THEN S
    ELSE IF i \notin DOMAIN S.trows THEN SyncRowsToCols(S, i + 1, 0)
    ELSE LET f == CellsOf(S, S.trows[i])
         IN IF DOMAIN f = {} \/ j > SetMax(DOMAIN f)
            THEN SyncRowsToCols(S, i + 1, 0)
            ELSE IF j \notin DOMAIN f THEN SyncRowsToCols(S, i, j + 1)
            ELSE LET gc == GetCol(S, j)
                     S1 == IF f[j] = DUMMY THEN gc.s
                           ELSE [gc.s EXCEPT !.cells[f[j]].col = gc.v]
                 IN SyncRowsToCols(SetCell(S1, gc.v, i, f[j]), i, j + 1)

\* Table.sync_cols_to_rows, columns and their cells taken in key order
RECURSIVE SyncColsToRows(_, _, _)
SyncColsToRows(S, i, j) ==
    IF DOMAIN S.tcols = {} \/ i > SetMax(DOMAIN S.tcols) THEN S
    ELSE IF i \notin DOMAIN S.tcols THEN SyncColsToRows(S, i + 1, 0)
    ELSE LET f == CellsOf(S, S.tcols[i])
         IN IF DOMAIN f = {} \/ j > SetMax(DOMAIN f)
            THEN SyncColsToRows(S, i + 1, 0)
            ELSE IF j \notin DOMAIN f THEN SyncColsToRows(S, i, j + 1)
            ELSE LET gr == GetRow(S, j)
                     S1 == IF f[j] = DUMMY THEN gr.s
                           ELSE [gr.s EXCEPT !.cells[f[j]].row = gr.v]
                 IN SyncColsToRows(SetCell(S1, gr.v, i, f[j]), i, j + 1)

\* which of the two synchronisations the constructor runs
CtorSync(S, rows, cols) ==
    IF Len(rows) > 0 THEN SyncRowsToCols(S, 0, 0)
    ELSE IF Len(cols) > 0 THEN SyncColsToRows(S, 0, 0)
    ELSE S

\* the cells the caller supplied in a list of rows (columns), each with the
\* index of its row (column) in the list and its position in it
Supplied(S, list) ==
    UNION {{<<k - 1, j, CellsOf(S, list[k])[j]>> :
               j \in DOMAIN CellsOf(S, list[k])} : k \in 1 .. Len(list)}

\* Table(rows=[...], cols=[...]) with rows of rowLens[k] and columns of
\* colLens[k] default cells
TableCtor(rowLens, colLens) ==
    LET mr == MakeRCs(EmptyStore, "row", rowLens, 1, <<>>)
        mc == MakeRCs(mr.s, "col", colLens, 1, <<>>)
        S1 == [mc.s EXCEPT !.trows = Enumerate(mr.v)]
        S2 == AttachAll(S1, mr.v, 1)
        S3 == [S2 EXCEPT !.tcols = Enumerate(mc.v)]
        S4 == AttachAll(S3, mc.v, 1)
    IN [s |-> CtorSync(S4, mr.v, mc.v), rows |-> mr.v, cols |-> mc.v,
        rowCells |-> Supplied(S4, mr.v), colCells |-> Supplied(S4, mc.v)]

----------------------------------------------------------------------------
(* Width constraints: prompt_toolkit's Dimension, as the table reads it *)

\* Python's None for an optional integer argument
None == 0 - 1

\* Dimension(min, max, preferred): the *_specified flags, and the preferred
\* size brought into the min..max range.  An unspecified max stays None
\* (it is only read under max_specified).
Dimension(min, max, preferred) ==
    LET lo == IF min = None THEN 0 ELSE min
        p0 == IF preferred = None THEN lo ELSE preferred
        p1 == IF p0 < lo THEN lo ELSE p0
        p2 == IF max # None /\ p1 > max THEN max ELSE p1
    IN [min_specified |-> min # None, max_specified |-> max # None,
        preferred_specified |-> preferred # None,
        min |-> lo, max |-> max, preferred |-> p2]

\* to_dimension(value) of an integer: Dimension.exact(value)
Exact(value) == Dimension(value, value, value)

\* Table(width=None): Dimension(max=<the terminal's columns>)
DefaultWidth == Dimension(None, TermCols, None)

----------------------------------------------------------------------------
(* Computed properties of a cell *)

\* DiLineStyle.from_value(v), and the DiLineStyle of a DummyCell / SpacerCell
Di(v) == [top |-> v, right |-> v, bottom |-> v, left |-> v]

\* row.table.border_line: the Table's, or NoLine for the DummyTable of a
\* DummyRow or of a row no table has taken
TableBorderLine(S, rc) ==
    IF rc # DUMMY /\ S.rcs[rc].attached THEN tborder ELSE NoLine

\* row.border_line / col.border_line (a DummyRow / DummyCol has NoLine)
RCBorderLine(S, rc) == IF rc = DUMMY THEN NoLine ELSE S.rcs[rc].bl

\* the first of the values that is not NoLine
RECURSIVE FirstLine(_)
FirstLine(seq) ==
    IF Len(seq) = 0 THEN NoLine
    ELSE IF seq[1] # NoLine THEN seq[1] ELSE FirstLine(Tail(seq))

\* Cell.computed_border_line: the cell's value, else the row's, else the
\* column's, else the table's (the same chain on the four edges)
CellBorderLine(S, c) ==
    Di(FirstLine(<<S.cells[c].bl, RCBorderLine(S, S.cells[c].row),
                   RCBorderLine(S, S.cells[c].col),
                   TableBorderLine(S, S.cells[c].row)>>))

\* computed_border_line of any cell: SpacerCell overrides it with the
\* expanding cell's, the left edge InvisibleLine inside a colspan and the
\* top edge InvisibleLine inside a rowspan
ComputedBorderLine(S, c) ==
    IF c = DUMMY THEN Di(NoLine)
    ELSE IF IsSpacer(S, c)
    THEN LET e == S.cells[c].expands
             b == CellBorderLine(S, e)
         IN [b EXCEPT
               !.left = IF S.cells[e].colspan > 1 THEN InvisibleLine ELSE @,
               !.top = IF S.cells[e].rowspan > 1 THEN InvisibleLine ELSE @]
    ELSE CellBorderLine(S, c)

\* computed_border_width, the same on the four edges: 0 for a DummyCell;
\* for a Cell or SpacerCell `row not in table._rows` holds (the keys of
\* _rows are indices), so DiInt.from_value(1) is returned
ComputedBorderWidth(S, c) == IF c = DUMMY THEN 0 ELSE 1

\* computed_padding: no cell, row or column of the model sets a padding,
\* the table's (and the DummyTable's) default is DiInt(0, 1, 0, 1)
ComputedPadding(S, c) == [top |-> 0, right |-> 1, bottom |-> 0, left |-> 1]

CellColspan(S, c) == IF c = DUMMY THEN 1 ELSE S.cells[c].colspan

\* cell.width (0 for None)
CellWidth(S, c) == IF c = DUMMY THEN 0 ELSE S.cells[c].width

\* max_line_width(cell.text)
CellText(S, c) == IF c = DUMMY THEN 0 ELSE S.cells[c].text

\* Cell.computed_width
ComputedWidth(S, c) ==
    IF CellColspan(S, c) > 1 THEN 0
    ELSE IF CellWidth(S, c) # 0 THEN CellWidth(S, c) ELSE CellText(S, c)

\* Cell.inner_width
InnerWidth(S, c) ==
    IF CellColspan(S, c) > 1 THEN 0
    ELSE ComputedWidth(S, c) + ComputedPadding(S, c).left
                             + ComputedPadding(S, c).right

----------------------------------------------------------------------------
(* Table._calculate_col_widths *)

\* the default of min_col_width
MinColWidth == 4

\* RowCol.max_inner_width: `self.widths` reads self.cells once, the
\* generator of the maximum reads it again
MaxInnerWidth(S, col) ==
    With(ReadCells(S, col), LAMBDA r1 :
        IF Len(r1.v) = 0 THEN [s |-> r1.s, v |-> 0]
        ELSE With(ReadCells(r1.s, col), LAMBDA r2 :
                 [s |-> r2.s,
                  v |-> SetMax({InnerWidth(r2.s, r2.v[k]) :
                                   k \in 1 .. Len(r2.v)})]))

\* col_widths = [col.max_inner_width for col in cols]
RECURSIVE NaturalWidths(_, _, _, _)
NaturalWidths(S, cols, k, acc) ==
    IF k > Len(cols) THEN [s |-> S, v |-> acc]
    ELSE With(MaxInnerWidth(S, cols[k]), LAMBDA m :
             NaturalWidths(m.s, cols, k + 1, Append(acc, m.v)))

\* "for col in cols: width += col.cells[0].computed_border_width.right";
\* ok = FALSE stands for the IndexError of cells[0] on an empty list
RECURSIVE RightBorders(_, _, _, _)
RightBorders(S, cols, k, acc) ==
    IF k > Len(cols) THEN [s |-> S, ok |-> TRUE, v |-> acc]
    ELSE With(ReadCells(S, cols[k]), LAMBDA r :
             IF Len(r.v) = 0 THEN [s |-> r.s, ok |-> FALSE, v |-> acc]
             ELSE RightBorders(r.s, cols, k + 1,
                               acc + ComputedBorderWidth(r.s, r.v[1])))

\* total_width(col_widths); ok = FALSE stands for an IndexError, of
\* cells[0] or of cols[0] on an empty tuple
TotalWidth(S, cols, col_widths) ==
    With(RightBorders(S, cols, 1, SeqSum(col_widths)), LAMBDA rb :
        IF ~rb.ok \/ Len(cols) = 0 THEN [s |-> rb.s, ok |-> FALSE, v |-> 0]
        ELSE With(ReadCells(rb.s, cols[1]), LAMBDA r :
                 IF Len(r.v) = 0 THEN [s |-> r.s, ok |-> FALSE, v |-> 0]
                 ELSE [s |-> r.s, ok |-> TRUE,
                       v |-> rb.v + ComputedBorderWidth(r.s, r.v[1])]))

\* the columns in which no cell has an explicit width (each column's cells
\* are read)
RECURSIVE Expandable(_, _, _, _)
Expandable(S, cols, k, acc) ==
    IF k > Len(cols) THEN [s |-> S, v |-> acc]
    ELSE With(ReadCells(S, cols[k]), LAMBDA r :
             Expandable(r.s, cols, k + 1,
                        IF \A j \in 1 .. Len(r.v) : CellWidth(r.s, r.v[j]) = 0
                        THEN acc \cup {k} ELSE acc))

\* min(..., key=width)[0] and max(..., key=width)[0]: the first of the
\* indices of least (greatest) width
IdxMin(col_widths, idxs) ==
    SetMin({i \in idxs : \A j \in idxs : col_widths[i] <= col_widths[j]})

IdxMax(col_widths) ==
    SetMin({i \in DOMAIN col_widths :
               \A j \in DOMAIN col_widths : col_widths[i] >= col_widths[j]})

\* max_width = max(target, len(col_widths) * min_col_width)
MaxWidth(target, col_widths, min_col_width) ==
    IMax(target, Len(col_widths) * min_col_width)

\* a loop body that adds to the column of least width whether or not its
\* cells have a width
ExpandOnceAny(S, cols, col_widths) ==
    [s |-> S,
     v |-> [col_widths EXCEPT ![IdxMin(col_widths, DOMAIN col_widths)] = @ + 1]]

\* the body of the loop of expand
ExpandOnce(S, cols, col_widths) ==
    With(Expandable(S, cols, 1, {}), LAMBDA e :
    With(IdxMin(col_widths, IF e.v = {} THEN DOMAIN col_widths ELSE e.v),
         LAMBDA idxmin :
             [s |-> e.s, v |-> [col_widths EXCEPT ![idxmin] = @ + 1]]))

\* a loop body that leaves the widths as they are
ContractOnceKeep(S, cols, col_widths) == [s |-> S, v |-> col_widths]

\* the body of the loop of contract
ContractOnce(S, cols, col_widths) ==
    [s |-> S, v |-> [col_widths EXCEPT ![IdxMax(col_widths)] = @ - 1]]

\* expand(target); total is the last value total_width returned
RECURSIVE Expand(_, _, _, _)
Expand(S, cols, col_widths, target) ==
    With(TotalWidth(S, cols, col_widths), LAMBDA t :
        IF ~t.ok
        THEN [s |-> t.s, ok |-> FALSE, v |-> col_widths, total |-> 0]
        ELSE IF ~(t.v < MaxWidth(target, col_widths, MinColWidth))
        THEN [s |-> t.s, ok |-> TRUE, v |-> col_widths, total |-> t.v]
        ELSE With(ExpandOnce(t.s, cols, col_widths), LAMBDA b :
                 Expand(b.s, cols, b.v, target)))

\* contract(target)
RECURSIVE Contract(_, _, _, _)
Contract(S, cols, col_widths, target) ==
    With(TotalWidth(S, cols, col_widths), LAMBDA t :
        IF ~t.ok
        THEN [s |-> t.s, ok |-> FALSE, v |-> col_widths, total |-> 0]
        ELSE IF ~(t.v > MaxWidth(target, col_widths, MinColWidth))
        THEN [s |-> t.s, ok |-> TRUE, v |-> col_widths, total |-> t.v]
        ELSE With(ContractOnce(t.s, cols, col_widths), LAMBDA b :
                 Contract(b.s, cols, b.v, target)))

\* a chain of tests that asks for the maximum before the preferred width:
\* the precedence C4 rules out
DecideMaxFirst(width, current_width, expand_to_width) ==
    IF width.max_specified
    THEN IF current_width > width.max
         THEN [act |-> "contract", target |-> width.max]
         ELSE IF current_width < width.max /\ expand_to_width
         THEN [act |-> "expand", target |-> width.max]
         ELSE [act |-> "none", target |-> 0]
    ELSE IF width.preferred_specified
    THEN IF current_width < width.preferred
         THEN [act |-> "expand", target |-> width.preferred]
         ELSE IF current_width > width.preferred
         THEN [act |-> "contract", target |-> width.preferred]
         ELSE [act |-> "none", target |-> 0]
    ELSE IF width.min_specified /\ current_width < width.min
    THEN [act |-> "expand", target |-> width.min]
    ELSE [act |-> "none", target |-> 0]

\* "Determine whether to expand or contract the table": what the chain of
\* tests on the Dimension picks for the natural total current_width
Decide(width, current_width, expand_to_width) ==
    IF width.preferred_specified
    THEN IF current_width < width.preferred
         THEN [act |-> "expand", target |-> width.preferred]
         ELSE IF current_width > width.preferred
         THEN [act |-> "contract", target |-> width.preferred]
         ELSE [act |-> "none", target |-> 0]
    ELSE IF width.max_specified
    THEN IF current_width > width.max
         THEN [act |-> "contract", target |-> width.max]
         ELSE IF current_width < width.max /\ expand_to_width
         THEN [act |-> "expand", target |-> width.max]
         ELSE [act |-> "none", target |-> 0]
    ELSE IF width.min_specified /\ current_width < width.min
    THEN [act |-> "expand", target |-> width.min]
    ELSE [act |-> "none", target |-> 0]

\* the branch taken: expand(target), contract(target) or neither
Resize(S, cols, col_widths, current_width, d) ==
    IF d.act = "expand" THEN Expand(S, cols, col_widths, d.target)
    ELSE IF d.act = "contract" THEN Contract(S, cols, col_widths, d.target)
    ELSE [s |-> S, ok |-> TRUE, v |-> col_widths, total |-> current_width]

\* the body of _calculate_col_widths: natural is the list of the columns'
\* max_inner_width, current its total width, total the total width of the
\* result; ok = FALSE stands for an IndexError
Negotiate(S, cols, width, expand_to_width) ==
    With(NaturalWidths(S, cols, 1, <<>>), LAMBDA nat :
    With(TotalWidth(nat.s, cols, nat.v), LAMBDA cur :
        IF ~cur.ok
        THEN [s |-> cur.s, ok |-> FALSE, widths |-> nat.v,
              natural |-> nat.v, current |-> 0, total |-> 0]
        ELSE With(Resize(cur.s, cols, nat.v, cur.v,
                         Decide(width, cur.v, expand_to_width)),
                  LAMBDA r :
                      [s |-> r.s, ok |-> r.ok, widths |-> r.v,
                       natural |-> nat.v, current |-> cur.v,
                       total |-> r.total])))

----------------------------------------------------------------------------
(* The lru_cache of _calculate_col_widths and Table.calculate_col_widths *)

\* the default maxsize of functools.lru_cache
LruMaxSize == 128

\* the positions of the cache that hold the key
CacheHits(C, key) == {i \in 1 .. Len(C) : C[i].key = key}

\* a hit makes the entry the most recently used one
CacheTouch(C, i) ==
    [k \in 1 .. Len(C) |->
        IF k < i THEN C[k] ELSE IF k < Len(C) THEN C[k + 1] ELSE C[i]]

\* a new entry drops the least recently used one of a full cache
CachePut(C, key, value) ==
    Append(IF Len(C) >= LruMaxSize THEN Tail(C) ELSE C,
           [key |-> key, widths |-> value])

\* self._calculate_col_widths(tuple(self.cols), width, self.expand) where
\* width is the Dimension object d of the heap D; the key is the identities
\* of the columns, the identity of the Dimension and the flag.  A call that
\* raises leaves no entry.
CacheKey(cols, d) == [cols |-> cols, dim |-> d, expand |-> texpand]

CalculateColWidths(S, C, D, d) ==
    With(ReadCols(S), LAMBDA rc :
        IF CacheHits(C, CacheKey(rc.v, d)) # {}
        THEN With(CHOOSE h \in CacheHits(C, CacheKey(rc.v, d)) : TRUE,
                  LAMBDA i :
                      [s |-> rc.s, cache |-> CacheTouch(C, i), ok |-> TRUE,
                       hit |-> TRUE, cols |-> rc.v, widths |-> C[i].widths,
                       natural |-> <<>>, current |-> 0, total |-> 0])
        ELSE With(Negotiate(rc.s, rc.v, D[d], texpand), LAMBDA n :
                 [s |-> n.s,
                  cache |-> IF n.ok
                            THEN CachePut(C, CacheKey(rc.v, d), n.widths)
                            ELSE C,
                  ok |-> n.ok, hit |-> FALSE, cols |-> rc.v,
                  widths |-> n.widths, natural |-> n.natural,
                  current |-> n.current, total |-> n.total]))

----------------------------------------------------------------------------
(* Border glyphs.  The output of render is a sequence of fragments; a     *)
(* fragment records its style (st), its glyph (g), how many characters it *)
(* holds (n), and, apart from its content, the cells it was drawn from    *)
(* (at).                                                                   *)

\* max() of two line styles
LineMax(a, b) == IF a >= b THEN a ELSE b

\* the part of a line style a glyph shows: an arm of a line that is not
\* visible is blank
Glyph(ls) == IF Visible(ls) THEN ls ELSE NoLine

\* computed_border_style on an edge: the joined style tags of a visible
\* edge, "" otherwise (no style tag is set in the model)
BorderStyle(S, c, edge) == Visible(ComputedBorderLine(S, c)[edge])

\* get_node(nw_bl, ne_bl, se_bl, sw_bl): the arms north, east, south, west
GetNode(nw_bl, ne_bl, se_bl, sw_bl) ==
    <<Glyph(LineMax(nw_bl.right, ne_bl.left)),
      Glyph(LineMax(ne_bl.bottom, se_bl.top)),
      Glyph(LineMax(se_bl.left, sw_bl.right)),
      Glyph(LineMax(sw_bl.top, nw_bl.bottom))>>

\* get_horizontal_edge(n_bl, s_bl)
GetHorizontalEdge(n_bl, s_bl) == Glyph(LineMax(n_bl.bottom, s_bl.top))

\* get_vertical_edge(w_bl, e_bl)
GetVerticalEdge(w_bl, e_bl) == Glyph(LineMax(w_bl.right, e_bl.left))

BlankNode == <<NoLine, NoLine, NoLine, NoLine>>

Newline == [t |-> "nl", at |-> <<>>]

----------------------------------------------------------------------------
(* Table.draw_border_row *)

\* None for a row
NoRow == 0

\* [DummyCell()] * n
Dummies(n) == [k \in 1 .. n |-> DUMMY]

IMin(a, b) == IF a <= b THEN a ELSE b

\* the fragments of the i-th pair of the zip: the node, when it is not
\* stripped to nothing, and the edge of the column right of it, when
\* col_widths has one
BorderPair(S, nw, ne, se, sw, i, col_widths) ==
    LET node_char == GetNode(ComputedBorderLine(S, nw),
                             ComputedBorderLine(S, ne),
                             ComputedBorderLine(S, se),
                             ComputedBorderLine(S, sw))
        stripped == /\ ComputedBorderWidth(S, nw) = 0
                    /\ ComputedBorderWidth(S, ne) = 0
        node == [t |-> "node",
                 st |-> <<BorderStyle(S, sw, "top"),
                          BorderStyle(S, sw, "right"),
                          BorderStyle(S, ne, "bottom"),
                          BorderStyle(S, ne, "left"),
                          BorderStyle(S, se, "top"),
                          BorderStyle(S, se, "left"),
                          BorderStyle(S, nw, "bottom"),
                          BorderStyle(S, nw, "right")>>,
                 g |-> node_char, n |-> 1, at |-> <<nw, ne, se, sw>>]
        edge == [t |-> "edge",
                 st |-> <<BorderStyle(S, se, "top"),
                          BorderStyle(S, ne, "bottom")>>,
                 g |-> GetHorizontalEdge(ComputedBorderLine(S, ne),
                                         ComputedBorderLine(S, se)),
                 n |-> IMax(col_widths[i], 0), at |-> <<ne, se>>]
    IN (IF stripped /\ node_char = BlankNode THEN <<>> ELSE <<node>>)
       \o (IF i <= Len(col_widths) THEN <<edge>> ELSE <<>>)

RECURSIVE BorderPairs(_, _, _, _, _, _)
BorderPairs(S, cells_above, cells_below, col_widths, i, n) ==
    IF i > n THEN <<>>
    ELSE BorderPair(S, cells_above[i], cells_above[i + 1],
                    cells_below[i + 1], cells_below[i], i, col_widths)
         \o BorderPairs(S, cells_above, cells_below, col_widths, i + 1, n)

\* row.cells, or [DummyCell()] * len(other.cells) for a row that is None
BorderCells(S, row, other) ==
    IF row # NoRow THEN ReadCells(S, row)
    ELSE With(ReadCells(S, other), LAMBDA r :
             [s |-> r.s, v |-> Dummies(Len(r.v))])

\* the loop over the pairs and the return of draw_border_row
BorderRowOutput(S, cells_above, cells_below, col_widths, collapse_empty_borders) ==
    LET n == IMin(Len(cells_above), Len(cells_below)) - 1
        edges == {GetHorizontalEdge(ComputedBorderLine(S, cells_above[i + 1]),
                                    ComputedBorderLine(S, cells_below[i + 1])) :
                     i \in 1 .. IMin(n, Len(col_widths))}
    IN IF collapse_empty_borders /\ edges \subseteq {NoLine} THEN <<>>
       ELSE Append(BorderPairs(S, cells_above, cells_below, col_widths, 1, n),
                   Newline)

\* draw_border_row(row_above, row_below, col_widths, collapse_empty_borders)
DrawBorderRow(S, row_above, row_below, col_widths, collapse_empty_borders) ==
    With(BorderCells(S, row_above, row_below), LAMBDA ra :
    With(BorderCells(ra.s, row_below, row_above), LAMBDA rb :
        [s |-> rb.s,
         v |-> BorderRowOutput(rb.s, <<DUMMY>> \o ra.v \o <<DUMMY>>,
                               <<DUMMY>> \o rb.v \o <<DUMMY>>, col_widths,
                               collapse_empty_borders)]))

----------------------------------------------------------------------------
(* Table.draw_table_row *)

\* the vertical border left of position k of the row (right of its last
\* cell for the last k): w and e are the cells west and east of it
VerticalBorder(S, w, e) ==
    LET border_char == GetVerticalEdge(ComputedBorderLine(S, w),
                                       ComputedBorderLine(S, e))
        stripped == /\ ComputedBorderWidth(S, w) = 0
                    /\ ComputedBorderWidth(S, e) = 0
    IN [t |-> "border",
        st |-> <<BorderStyle(S, w, "right"), BorderStyle(S, e, "left")>>,
        g |-> border_char,
        n |-> IF stripped /\ border_char = NoLine THEN 0 ELSE 1,
        at |-> <<w, e>>]

\* a SpacerCell inside a colspan: it is given no width and is not drawn
InColspan(S, c) == IsSpacer(S, c) /\ S.cells[S.cells[c].expands].colspan > 1

\* _calc_cell_width(cell, col, col_widths) for the cell at position k
\* (from 1) of the row, nb the length of `borders`; ok = FALSE stands for
\* the IndexError of col_widths[...] or borders[col]
CalcCellWidth(S, cell, k, col_widths, nb) ==
    LET span == k + 1 .. k + CellColspan(S, cell) - 1
        padding == ComputedPadding(S, cell)
    IN IF InColspan(S, cell) THEN [ok |-> TRUE, v |-> 0]
       ELSE IF k > Len(col_widths) THEN [ok |-> FALSE, v |-> 0]
       ELSE IF span # {} /\ (SetMax(span) > Len(col_widths) \/ k > nb)
       THEN [ok |-> FALSE, v |-> 0]
       ELSE [ok |-> TRUE,
             v |-> col_widths[k] - (padding.left + padding.right)
                   + SeqSum([j \in 1 .. Cardinality(span) |->
                                col_widths[k + j] + 1])]

\* the width of the line cell.lines(width) yields: the text is wrapped
\* and aligned to the width
LineWidth(width) == IMax(width, 0)

\* sum(col_widths[i : i + cell.colspan]), a slice
SliceSum(col_widths, k, colspan) ==
    SeqSum([j \in 1 .. IMax(IMin(k + colspan - 1, Len(col_widths)) - k + 1, 0)
               |-> col_widths[k + j - 1]])

\* how many lines cell.lines(width) yields: the lines of the cell's text
\* (the text of a SpacerCell and of a DummyCell is "", one line)
CellLines(S, c) == IF c = DUMMY THEN 1 ELSE S.cells[c].lines

\* one cell of the l-th line of the row: its left border, the padding, the
\* line of the text (nothing when the cell has fewer lines: zip_longest
\* fills with None), the excess and the padding
CellFrags(S, cell, k, col_widths, width, border, l) ==
    LET padding == ComputedPadding(S, cell)
        line == IF l <= CellLines(S, cell) THEN LineWidth(width) ELSE 0
        excess == SliceSum(col_widths, k, CellColspan(S, cell))
                  - padding.left - line - padding.right
    IN <<border,
         [t |-> "pad", n |-> padding.left, at |-> <<cell>>],
         [t |-> "text", g |-> CellText(S, cell), n |-> line,
          at |-> <<cell>>],
         [t |-> "fill", n |-> IMax(excess, 0), at |-> <<cell>>],
         [t |-> "pad", n |-> padding.right, at |-> <<cell>>]>>

RECURSIVE RowLine(_, _, _, _, _, _, _, _)
RowLine(S, row_cells, col_widths, widths, borders, k, n, l) ==
    IF k > n THEN <<>>
    ELSE (IF InColspan(S, row_cells[k]) THEN <<>>
          ELSE CellFrags(S, row_cells[k], k, col_widths, widths[k].v,
                         borders[k], l))
         \o RowLine(S, row_cells, col_widths, widths, borders, k + 1, n, l)

\* zip_longest over the lines of the cells: as many as the tallest cell has
RowHeight(S, row_cells) ==
    SetMax({0} \cup {CellLines(S, row_cells[k]) : k \in 1 .. Len(row_cells)})

\* the list `borders`: one border for each pair of the zip
Borders(S, west, east) ==
    [k \in 1 .. IMin(Len(west), Len(east)) |->
        VerticalBorder(S, west[k], east[k])]

\* the widths _calc_cell_width gives the cells of the row
CellWidths(S, row_cells, col_widths, nb) ==
    [k \in 1 .. Len(row_cells) |->
        CalcCellWidth(S, row_cells[k], k, col_widths, nb)]

\* the loop over row_lines from line l to line h: each line reads
\* row.cells again and has as many cells as row_cells and that read both
\* have; it is closed by the border after its last cell and a line
\* separator
RECURSIVE RowLinesFrom(_, _, _, _, _, _, _, _, _)
RowLinesFrom(S, row, row_cells, col_widths, widths, borders, l, h, acc) ==
    IF l > h THEN [s |-> S, ok |-> TRUE, v |-> acc]
    ELSE With(ReadCells(S, row), LAMBDA r4 :
         With(IMin(Len(row_cells), Len(r4.v)), LAMBDA n :
             IF n + 1 > Len(borders) THEN [s |-> r4.s, ok |-> FALSE, v |-> <<>>]
             ELSE RowLinesFrom(r4.s, row, row_cells, col_widths, widths,
                               borders, l + 1, h,
                               acc \o RowLine(r4.s, r4.v, col_widths, widths,
                                              borders, 1, n, l)
                                   \o <<borders[n + 1], Newline>>)))

\* the lines of the row: cell.lines for every cell, then the loop
RowLines(S, row, row_cells, col_widths, widths, borders) ==
    IF \E k \in 1 .. Len(row_cells) : ~widths[k].ok
    THEN [s |-> S, ok |-> FALSE, v |-> <<>>]
    ELSE RowLinesFrom(S, row, row_cells, col_widths, widths, borders, 1,
                      RowHeight(S, row_cells), <<>>)

\* draw_table_row(row, col_widths, collapse_empty_borders) for a row that
\* is not None.  row.cells is read for the west and again for the east
\* cells of the borders, for the cells' widths and lines, and in the loop
\* over the line; ok = FALSE stands for an IndexError
DrawTableRow(S, row, col_widths) ==
    With(ReadCells(S, row), LAMBDA r1 :
    With(ReadCells(r1.s, row), LAMBDA r2 :
    With(Borders(r2.s, <<DUMMY>> \o r1.v, Append(r2.v, DUMMY)),
         LAMBDA borders :
    With(ReadCells(r2.s, row), LAMBDA r3 :
    With(CellWidths(r3.s, r3.v, col_widths, Len(borders)), LAMBDA widths :
        RowLines(r3.s, row, r3.v, col_widths, widths, borders))))))

----------------------------------------------------------------------------
(* Table.render *)

\* the loop over zip([None, *self.rows], [*self.rows, None])
RECURSIVE RenderRows(_, _, _, _, _, _, _)
RenderRows(S, aboves, belows, col_widths, k, n, acc) ==
    IF k > n THEN [s |-> S, ok |-> TRUE, v |-> acc]
    ELSE With(DrawBorderRow(S, aboves[k], belows[k], col_widths, tcollapse),
              LAMBDA b :
        IF belows[k] = NoRow
        THEN RenderRows(b.s, aboves, belows, col_widths, k + 1, n,
                        acc \o b.v)
        ELSE With(DrawTableRow(b.s, belows[k], col_widths), LAMBDA t :
                 IF ~t.ok THEN [s |-> t.s, ok |-> FALSE, v |-> <<>>]
                 ELSE RenderRows(t.s, aboves, belows, col_widths, k + 1, n,
                                 acc \o b.v \o t.v)))

\* render without its `output.pop()`: the trailing line separator stays
PopNothing(output) == output

\* output.pop() of a list that is not empty
Pop(output) == IF Len(output) = 0 THEN output
               ELSE SubSeq(output, 1, Len(output) - 1)

\* the body of `if self.rows:` in render, rows being not empty
RenderBody(S, col_widths) ==
    With(ReadRows(S), LAMBDA rr2 :
    With(ReadRows(rr2.s), LAMBDA rr3 :
        RenderRows(rr3.s, <<NoRow>> \o rr2.v, Append(rr3.v, NoRow),
                   col_widths, 1, IMin(Len(rr2.v), Len(rr3.v)) + 1, <<>>)))

\* render(width) where width is the Dimension object d of the heap D;
\* ok = FALSE stands for an IndexError
Render(S, C, D, d) ==
    With(CalculateColWidths(S, C, D, d), LAMBDA cw :
        IF ~cw.ok
        THEN [s |-> cw.s, cache |-> cw.cache, ok |-> FALSE, hit |-> cw.hit,
              cols |-> cw.cols, widths |-> cw.widths, out |-> <<>>]
        ELSE With(ReadRows(cw.s), LAMBDA rr1 :
            IF Len(rr1.v) = 0
            THEN [s |-> rr1.s, cache |-> cw.cache, ok |-> TRUE,
                  hit |-> cw.hit, cols |-> cw.cols, widths |-> cw.widths,
                  out |-> <<>>]
            ELSE With(RenderBody(rr1.s, cw.widths), LAMBDA r :
                     [s |-> r.s, cache |-> cw.cache, ok |-> r.ok,
                      hit |-> cw.hit, cols |-> cw.cols, widths |-> cw.widths,
                      out |-> Pop(r.v)])))

----------------------------------------------------------------------------
(* The table under construction: the constructor, then any sequence of    *)
(* new_row / add_row / new_col / add_col / new_cell calls.                *)

NoCall == [op |-> "none"]

LenSeqs == UNION {[1 .. k -> 0 .. MaxInitLen] : k \in 0 .. MaxInitLists}

InitShapes ==
    {sh \in LenSeqs \X LenSeqs :
        /\ Len(sh[1]) + Len(sh[2]) <= MaxInitLists
        /\ SeqSum(sh[1]) + SeqSum(sh[2]) <= MaxCells}

\* how many cells (not spacers) and how many Row / Col objects the caller
\* has made
NUserCells == Cardinality({c \in 1 .. Len(cells) : cells[c].kind = "cell"})

NUserRCs == Cardinality({r \in 1 .. Len(rcs) : rcs[r].user})

\* the Row (Col) objects the caller can hold: those it made and added,
\* and those the table's row (column) map holds
RowObjs ==
    {r \in 1 .. Len(rcs) :
        /\ rcs[r].type = "row" /\ rcs[r].attached
        /\ (rcs[r].user \/ r \in Values(trows))}

ColObjs ==
    {r \in 1 .. Len(rcs) :
        /\ rcs[r].type = "col" /\ rcs[r].attached
        /\ (rcs[r].user \/ r \in Values(tcols))}

SetStore(S) ==
    /\ cells' = S.cells
    /\ rcs' = S.rcs
    /\ dicts' = S.dicts
    /\ trows' = S.trows
    /\ tcols' = S.tcols

\* the state after Table(rows, cols, border_line=o.border,
\* collapse_empty_borders=o.collapse, expand=o.expand), t the constructed
\* maps
InitWith(t, o) ==
    /\ cells = t.s.cells
    /\ rcs = t.s.rcs
    /\ dicts = t.s.dicts
    /\ trows = t.s.trows
    /\ tcols = t.s.tcols
    /\ tborder = o.border
    /\ tcollapse = o.collapse
    /\ texpand = o.expand
    /\ dims = <<DefaultWidth>>
    /\ cache = <<>>
    /\ last = [op |-> "init", rows |-> t.rows, cols |-> t.cols,
               rowCells |-> t.rowCells, colCells |-> t.colCells]
    /\ prev = NoCall

\* the defaults of Table.__init__
DefaultOptions == [border |-> ThinLine, collapse |-> TRUE, expand |-> FALSE]

Init == \E sh \in InitShapes : InitWith(TableCtor(sh[1], sh[2]), DefaultOptions)

\* table.new_row()
NewRow ==
    /\ NUserRCs < MaxRCs
    /\ \E S1 \in {AllocRC(Store, "row", FALSE)} :
       \E a \in {AddRow(S1, Len(S1.rcs))} :
           /\ SetStore(a.s)
           /\ last' = [op |-> "add_row", rc |-> Len(S1.rcs), index |-> a.index,
                       given |-> <<>>]
    /\ prev' = NoCall
    /\ UNCHANGED <<tborder, tcollapse, texpand, dims, cache>>

\* table.add_row(Row(cells=[Cell(), ...])) with n cells
AddRowCells(n) ==
    /\ NUserRCs < MaxRCs
    /\ NUserCells + n <= MaxCells
    /\ \E S1 \in {RCWithCells(Store, "row", n, DefaultCell)} :
       \E a \in {AddRow(S1, Len(S1.rcs))} :
           /\ SetStore(a.s)
           /\ last' = [op |-> "add_row", rc |-> Len(S1.rcs), index |-> a.index,
                       given |-> CellsList(CellsOf(S1, Len(S1.rcs)))]
    /\ prev' = NoCall
    /\ UNCHANGED <<tborder, tcollapse, texpand, dims, cache>>

\* table.new_col()
NewCol ==
    /\ NUserRCs < MaxRCs
    /\ \E S1 \in {AllocRC(Store, "col", FALSE)} :
       \E a \in {AddCol(S1, Len(S1.rcs))} :
           /\ SetStore(a.s)
           /\ last' = [op |-> "add_col", rc |-> Len(S1.rcs), index |-> a.index,
                       given |-> <<>>]
    /\ prev' = NoCall
    /\ UNCHANGED <<tborder, tcollapse, texpand, dims, cache>>

\* table.add_col(Col(cells=[Cell(), ...])) with n cells
AddColCells(n) ==
    /\ NUserRCs < MaxRCs
    /\ NUserCells + n <= MaxCells
    /\ \E S1 \in {RCWithCells(Store, "col", n, DefaultCell)} :
       \E a \in {AddCol(S1, Len(S1.rcs))} :
           /\ SetStore(a.s)
           /\ last' = [op |-> "add_col", rc |-> Len(S1.rcs), index |-> a.index,
                       given |-> CellsList(CellsOf(S1, Len(S1.rcs)))]
    /\ prev' = NoCall
    /\ UNCHANGED <<tborder, tcollapse, texpand, dims, cache>>

\* row.new_cell(colspan=cs, rowspan=rs) on a row of the table; `before`
\* keeps the keys of the table's maps at the time of the call
RowNewCell(R, cs, rs) ==
    /\ NUserCells < MaxCells
    /\ \E a \in {RowAddCell(Store, R, NewCell(cs, rs, 0, 1, NoLine))} :
           /\ SetStore(a.s)
           /\ last' = [op |-> "row_add_cell", rc |-> R, ok |-> a.ok,
                       c |-> a.c, ri |-> a.ri, ci |-> a.ci,
                       before |-> [rows |-> DOMAIN trows,
                                   cols |-> DOMAIN tcols]]
    /\ prev' = NoCall
    /\ UNCHANGED <<tborder, tcollapse, texpand, dims, cache>>

\* col.new_cell(colspan=cs, rowspan=rs) on a column of the table
ColNewCell(C, cs, rs) ==
    /\ NUserCells < MaxCells
    /\ \E a \in {ColAddCell(Store, C, NewCell(cs, rs, 0, 1, NoLine))} :
           /\ SetStore(a.s)
           /\ last' = [op |-> "col_add_cell", rc |-> C, ok |-> a.ok,
                       c |-> a.c, ri |-> a.ri, ci |-> a.ci,
                       before |-> [rows |-> DOMAIN trows,
                                   cols |-> DOMAIN tcols]]
    /\ prev' = NoCall
    /\ UNCHANGED <<tborder, tcollapse, texpand, dims, cache>>

Next ==
    \/ NewRow
    \/ \E n \in 1 .. MaxInitLen : AddRowCells(n)
    \/ NewCol
    \/ \E n \in 1 .. MaxInitLen : AddColCells(n)
    \/ \E R \in RowObjs, cs \in Spans, rs \in Spans : RowNewCell(R, cs, rs)
    \/ \E C \in ColObjs, cs \in Spans, rs \in Spans : ColNewCell(C, cs, rs)

Spec == Init /\ [][Next]_vars

----------------------------------------------------------------------------
(* The table built and then rendered: the building operations until the   *)
(* first render, then render() and render(w) any number of times.         *)

\* the Dimension objects of a run: the table's and those of render(w)
MaxRenderDims == 3

\* the integer widths render is called with
RenderWidths == {0}

\* colspan and rowspan of the cells of a rendered table
RenderSpans == {1, 3}

\* the cells the caller puts into a table it renders
MaxRenderCells == 2

\* Table()
InitRender == InitWith(TableCtor(<<>>, <<>>), DefaultOptions)

Building == last.op # "render"

\* what `last` keeps of a render call
RenderCall(arg, d, r) ==
    [op |-> "render", arg |-> arg, dim |-> d, ok |-> r.ok, hit |-> r.hit,
     cols |-> r.cols, widths |-> r.widths, out |-> r.out]

\* table.render(): the width is the table's own Dimension
RenderTable ==
    /\ \E r \in {Render(Store, cache, dims, 1)} :
           /\ SetStore(r.s)
           /\ cache' = r.cache
           /\ last' = RenderCall(None, 1, r)
    /\ prev' = IF last.op = "render" THEN last ELSE NoCall
    /\ UNCHANGED <<tborder, tcollapse, texpand, dims>>

\* table.render(w): to_dimension(w) makes a new Dimension
RenderAt(w) ==
    /\ Len(dims) < MaxRenderDims
    /\ \E r \in {Render(Store, cache, Append(dims, Exact(w)), Len(dims) + 1)} :
           /\ SetStore(r.s)
           /\ cache' = r.cache
           /\ last' = RenderCall(w, Len(dims) + 1, r)
    /\ dims' = Append(dims, Exact(w))
    /\ prev' = IF last.op = "render" THEN last ELSE NoCall
    /\ UNCHANGED <<tborder, tcollapse, texpand>>

NextRender ==
    \/ Building /\ NewRow
    \/ Building /\ \E n \in 1 .. MaxRenderCells - 1 :
                       NUserCells + n <= MaxRenderCells /\ AddRowCells(n)
    \/ Building /\ NewCol
    \/ Building /\ \E n \in 1 .. MaxRenderCells - 1 :
                       NUserCells + n <= MaxRenderCells /\ AddColCells(n)
    \/ Building /\ NUserCells < MaxRenderCells
                /\ \E R \in RowObjs, cs \in RenderSpans, rs \in RenderSpans :
                       RowNewCell(R, cs, rs)
    \/ Building /\ NUserCells < MaxRenderCells
                /\ \E C \in ColObjs, cs \in RenderSpans, rs \in RenderSpans :
                       ColNewCell(C, cs, rs)
    \/ RenderTable
    \/ \E w \in RenderWidths : RenderAt(w)

SpecRender == InitRender /\ [][NextRender]_vars

----------------------------------------------------------------------------
(* Width negotiation on a constructed table: calculate_col_widths with    *)
(* the table's width, an integer, or a Dimension.                         *)

\* the Dimension objects of a run: the table's and the caller's
MaxDims == 2

\* the widths of the texts of the cells
TextWidths == {0, 1, 4}

\* the values of min, max, preferred and of an integer width
DimValues == {0, 6, 10}

\* the (min, max, preferred) a Dimension can be made of: max < min raises
DimArgs ==
    {a \in (DimValues \cup {None}) \X (DimValues \cup {None})
               \X (DimValues \cup {None}) :
        a[1] = None \/ a[2] = None \/ a[1] <= a[2]}

\* the cells of a table whose widths are negotiated
MaxWidthCells == 2

\* rows of cells, or columns of cells
WidthShapes ==
    {sh \in InitShapes :
        /\ Len(sh[1]) = 0 \/ Len(sh[2]) = 0
        /\ SeqSum(sh[1]) + SeqSum(sh[2]) <= MaxWidthCells
        /\ \A i \in 1 .. 2 : \A k \in 1 .. Len(sh[i]) :
               sh[i][k] <= MaxWidthCells - 1}

\* Cell(text) for each cell of the lists, f the widths of the texts
WithTexts(t, f) ==
    [t EXCEPT !.s.cells = [c \in DOMAIN @ |-> [@[c] EXCEPT !.text = f[c]]]]

InitWidths ==
    \E sh \in WidthShapes, e \in BOOLEAN :
        LET t == TableCtor(sh[1], sh[2])
        IN \E f \in [DOMAIN t.s.cells -> TextWidths] :
               InitWith(WithTexts(t, f),
                        [DefaultOptions EXCEPT !.expand = e])

\* what `last` keeps of a calculate_col_widths call with Dimension d
CalcCall(d, r) ==
    [op |-> "calc", dim |-> d, ok |-> r.ok, hit |-> r.hit, cols |-> r.cols,
     widths |-> r.widths, natural |-> r.natural, current |-> r.current,
     total |-> r.total]

\* table.calculate_col_widths()
CalcDefault ==
    /\ \E r \in {CalculateColWidths(Store, cache, dims, 1)} :
           /\ SetStore(r.s)
           /\ cache' = r.cache
           /\ last' = CalcCall(1, r)
    /\ prev' = last
    /\ UNCHANGED <<tborder, tcollapse, texpand, dims>>

\* table.calculate_col_widths(Dimension(min, max, preferred))
CalcDimension(a) ==
    /\ Len(dims) < MaxDims
    /\ \E r \in {CalculateColWidths(Store, cache,
                                      Append(dims, Dimension(a[1], a[2], a[3])),
                                      Len(dims) + 1)} :
           /\ SetStore(r.s)
           /\ cache' = r.cache
           /\ last' = CalcCall(Len(dims) + 1, r)
    /\ dims' = Append(dims, Dimension(a[1], a[2], a[3]))
    /\ prev' = last
    /\ UNCHANGED <<tborder, tcollapse, texpand>>

\* table.calculate_col_widths(w)
CalcAt(w) ==
    /\ Len(dims) < MaxDims
    /\ \E r \in {CalculateColWidths(Store, cache, Append(dims, Exact(w)),
                                      Len(dims) + 1)} :
           /\ SetStore(r.s)
           /\ cache' = r.cache
           /\ last' = CalcCall(Len(dims) + 1, r)
    /\ dims' = Append(dims, Exact(w))
    /\ prev' = last
    /\ UNCHANGED <<tborder, tcollapse, texpand>>

NextWidths ==
    \/ CalcDefault
    \/ \E a \in DimArgs : CalcDimension(a)
    \/ \E w \in DimValues : CalcAt(w)

SpecWidths == InitWidths /\ [][NextWidths]_vars

----------------------------------------------------------------------------
(* Placeholders: the DummyRow and DummyCol every unattached Cell gets, and *)
(* a DummyTable.  In this part the table of the store is a DummyTable      *)
(* constructed with any rows and columns; its rows and columns are plain   *)
(* Row / Col objects, whose new_cell works as on any table.                *)

\* DummyRow() / DummyCol() as Cell.__init__ makes them: no caller made it,
\* and its table is a DummyTable of its own
AllocDummyRC(S, type) ==
    [S EXCEPT !.rcs = Append(@, [type |-> type, attached |-> FALSE,
                                 user |-> FALSE, bl |-> NoLine,
                                 d |-> Len(S.dicts) + 1]),
              !.dicts = Append(@, EmptyMap)]

IsDummyRC(S, r) == ~S.rcs[r].attached /\ ~S.rcs[r].user

\* Cell(...): "self.row = row or DummyRow()", "self.col = col or DummyCol()"
MakeCell(S, rec) ==
    LET S1 == AllocDummyRC(S, "row")
        S2 == AllocDummyRC(S1, "col")
        c == Len(S.cells) + 1
    IN [S2 EXCEPT !.cells = Append(@, [rec EXCEPT !.expands = c,
                                                  !.row = Len(S1.rcs),
                                                  !.col = Len(S2.rcs)])]

\* RowCol.add_cell as a DummyRow / DummyCol would inherit it, up to its
\* first store: what the override of the placeholders prevents
DummyAddCellInherited(S, P, c) ==
    [s |-> SetCell(S, P, AddCellIndex(CellsOf(S, P)), c), raised |-> FALSE]

\* DummyRow.add_cell / DummyCol.add_cell: raise NotImplementedError
DummyAddCell(S, P, c) == [s |-> S, raised |-> TRUE]

\* DummyTable.add_row: raise NotImplementedError
DummyTableAddRow(S, R) == [s |-> S, raised |-> TRUE]

\* DummyTable.add_col: raise NotImplementedError
DummyTableAddCol(S, C) == [s |-> S, raised |-> TRUE]

\* the maps of the table: _rows, _cols and the _cells of their members
TableMaps(S) ==
    [rows |-> S.trows, cols |-> S.tcols,
     cells |-> [r \in Values(S.trows) \cup Values(S.tcols) |-> CellsOf(S, r)]]

\* the placeholder rows / columns, the Row / Col objects and the cells a
\* caller can hold
DummyRCs == {r \in 1 .. Len(rcs) : IsDummyRC(Store, r)}

RowsHeld == {r \in 1 .. Len(rcs) : rcs[r].type = "row"}

ColsHeld == {r \in 1 .. Len(rcs) : rcs[r].type = "col"}

CellsHeld == {c \in 1 .. Len(cells) : cells[c].kind = "cell"}

\* DummyTable(rows, cols): Table.__init__ with border_line = NoLine
InitDummy ==
    \E sh \in InitShapes :
        InitWith(TableCtor(sh[1], sh[2]), [DefaultOptions EXCEPT !.border = NoLine])

\* Cell()
NewDummyCell ==
    /\ NUserCells < MaxCells
    /\ SetStore(MakeCell(Store, DefaultCell))
    /\ last' = [op |-> "cell", c |-> Len(cells) + 1]
    /\ prev' = NoCall
    /\ UNCHANGED <<tborder, tcollapse, texpand, dims, cache>>

\* cell.row.add_cell(c) / cell.col.add_cell(c) on the placeholder P of an
\* unattached cell
DummyRowAddCell(P, c) ==
    /\ \E r \in {DummyAddCell(Store, P, c)} :
           /\ SetStore(r.s)
           /\ last' = [op |-> "dummy_add_cell", rc |-> P, c |-> c,
                       raised |-> r.raised, before |-> CellsOf(Store, P)]
    /\ prev' = NoCall
    /\ UNCHANGED <<tborder, tcollapse, texpand, dims, cache>>

\* cell.row.new_cell() / cell.col.new_cell(): Cell(), then add_cell
DummyRowNewCell(P) ==
    /\ NUserCells < MaxCells
    /\ \E S1 \in {MakeCell(Store, DefaultCell)} :
       \E r \in {DummyAddCell(S1, P, Len(S1.cells))} :
           /\ SetStore(r.s)
           /\ last' = [op |-> "dummy_add_cell", rc |-> P, c |-> Len(S1.cells),
                       raised |-> r.raised, before |-> CellsOf(Store, P)]
    /\ prev' = NoCall
    /\ UNCHANGED <<tborder, tcollapse, texpand, dims, cache>>

\* table.add_row(R) on the DummyTable
DummyAddRow(R) ==
    /\ \E r \in {DummyTableAddRow(Store, R)} :
           /\ SetStore(r.s)
           /\ last' = [op |-> "dummy_add_row", rc |-> R, raised |-> r.raised,
                       before |-> TableMaps(Store)]
    /\ prev' = NoCall
    /\ UNCHANGED <<tborder, tcollapse, texpand, dims, cache>>

\* table.add_col(C) on the DummyTable
DummyAddCol(C) ==
    /\ \E r \in {DummyTableAddCol(Store, C)} :
           /\ SetStore(r.s)
           /\ last' = [op |-> "dummy_add_col", rc |-> C, raised |-> r.raised,
                       before |-> TableMaps(Store)]
    /\ prev' = NoCall
    /\ UNCHANGED <<tborder, tcollapse, texpand, dims, cache>>

\* table.new_row() on the DummyTable: Row(), then add_row
DummyNewRow ==
    /\ NUserRCs < MaxRCs
    /\ \E S1 \in {AllocRC(Store, "row", FALSE)} :
       \E r \in {DummyTableAddRow(S1, Len(S1.rcs))} :
           /\ SetStore(r.s)
           /\ last' = [op |-> "dummy_add_row", rc |-> Len(S1.rcs),
                       raised |-> r.raised, before |-> TableMaps(Store)]
    /\ prev' = NoCall
    /\ UNCHANGED <<tborder, tcollapse, texpand, dims, cache>>

\* table.new_col() on the DummyTable: Col(), then add_col
DummyNewCol ==
    /\ NUserRCs < MaxRCs
    /\ \E S1 \in {AllocRC(Store, "col", FALSE)} :
       \E r \in {DummyTableAddCol(S1, Len(S1.rcs))} :
           /\ SetStore(r.s)
           /\ last' = [op |-> "dummy_add_col", rc |-> Len(S1.rcs),
                       raised |-> r.raised, before |-> TableMaps(Store)]
    /\ prev' = NoCall
    /\ UNCHANGED <<tborder, tcollapse, texpand, dims, cache>>

NextDummy ==
    \/ NewDummyCell
    \/ \E P \in DummyRCs, c \in CellsHeld : DummyRowAddCell(P, c)
    \/ \E P \in DummyRCs : DummyRowNewCell(P)
    \/ \E R \in RowsHeld : DummyAddRow(R)
    \/ \E C \in ColsHeld : DummyAddCol(C)
    \/ DummyNewRow
    \/ DummyNewCol
    \/ \E R \in RowObjs, cs \in Spans, rs \in Spans : RowNewCell(R, cs, rs)
    \/ \E C \in ColObjs, cs \in Spans, rs \in Spans : ColNewCell(C, cs, rs)

SpecDummy == InitDummy /\ [][NextDummy]_vars

----------------------------------------------------------------------------
(* Table.draw_border_row on the row boundaries of a table, as render calls *)
(* it: above the first row, between two adjacent rows, below the last row, *)
(* with a width for every column.  The table is made from rows of cells    *)
(* with their own border lines; new_cell adds cells with spans.            *)

\* border_line of the table and of a cell
BorderLines == {NoLine, ThinLine}

\* the widths of the columns (every column the same)
BorderWidths == {0, 2}

\* the cells of a table that new_cell adds a cell to
MaxBorderCells == 2

\* Table(rows=[...]): rows only
BorderShapes == {sh \in InitShapes : Len(sh[2]) = 0}

\* Cell(border_line=f[c]) for each cell of the lists
WithBorders(t, f) ==
    [t EXCEPT !.s.cells = [c \in DOMAIN @ |-> [@[c] EXCEPT !.bl = f[c]]]]

InitBorder ==
    \E sh \in BorderShapes, b \in BorderLines :
        LET t == TableCtor(sh[1], sh[2])
        IN \E f \in [DOMAIN t.s.cells -> BorderLines] :
               InitWith(WithBorders(t, f), [DefaultOptions EXCEPT !.border = b])

\* the (row_above, row_below) pairs of Table.render
BorderPlaces ==
    {<<NoRow, trows[0]>> : i \in {0} \cap DOMAIN trows}
    \cup {<<trows[i], trows[i + 1]>> : i \in {k \in DOMAIN trows : k + 1 \in DOMAIN trows}}
    \cup {<<trows[i], NoRow>> : i \in {k \in DOMAIN trows : k + 1 \notin DOMAIN trows}}

\* table.draw_border_row(row_above, row_below, [w] * len(cols), collapse)
DrawBorder(row_above, row_below, w, collapse) ==
    /\ \E r \in {DrawBorderRow(Store, row_above, row_below,
                               [k \in 1 .. Cardinality(DOMAIN tcols) |-> w],
                               collapse)} :
           /\ SetStore(r.s)
           /\ last' = [op |-> "border", above |-> row_above,
                       below |-> row_below, collapse |-> collapse,
                       out |-> r.v]
    /\ prev' = NoCall
    /\ UNCHANGED <<tborder, tcollapse, texpand, dims, cache>>

NextBorder ==
    \/ /\ last.op # "border"
       /\ NUserCells < MaxBorderCells
       /\ \E R \in RowObjs, cs \in Spans, rs \in Spans : RowNewCell(R, cs, rs)
    \/ \E p \in BorderPlaces, w \in BorderWidths, collapse \in BOOLEAN :
           DrawBorder(p[1], p[2], w, collapse)

SpecBorder == InitBorder /\ [][NextBorder]_vars

----------------------------------------------------------------------------
(* Rendering tables whose cells have texts of several lines: the table is  *)
(* made from rows of cells, new_cell adds cells with spans, then render(). *)

\* the lines of the text of a cell
TextLines == {1, 3}

\* the cells of a table that new_cell adds a cell to
MaxLinesCells == 2

\* Cell(text) for each cell of the lists, f the lines of the texts
WithLines(t, f) ==
    [t EXCEPT !.s.cells = [c \in DOMAIN @ |-> [@[c] EXCEPT !.lines = f[c]]]]

InitLines ==
    \E sh \in BorderShapes :
        LET t == TableCtor(sh[1], sh[2])
        IN \E f \in [DOMAIN t.s.cells -> TextLines] :
               InitWith(WithLines(t, f), DefaultOptions)

NextLines ==
    \/ /\ Building
       /\ NUserCells < MaxLinesCells
       /\ \E R \in RowObjs, cs \in Spans, rs \in Spans : RowNewCell(R, cs, rs)
    \/ RenderTable

SpecLines == InitLines /\ [][NextLines]_vars

----------------------------------------------------------------------------
(* Rendering under a maximum width: the table is made from rows of cells   *)
(* whose texts can be wider than the width leaves room for, then           *)
(* render(Dimension(max=M)).                                               *)

\* the maximum widths render is called with
MaxWidths == {8, 12}

\* the widths of the texts of the cells
WideTexts == {1, 9}

\* the cells of a table rendered under a maximum width
MaxWideCells == 3

InitMax ==
    \E sh \in BorderShapes :
        /\ SeqSum(sh[1]) <= MaxWideCells
        /\ LET t == TableCtor(sh[1], sh[2])
           IN \E f \in [DOMAIN t.s.cells -> WideTexts] :
                  InitWith(WithTexts(t, f), DefaultOptions)

\* table.render(Dimension(max=M)): to_dimension returns the Dimension
RenderMax(M) ==
    /\ Len(dims) < MaxRenderDims
    /\ \E r \in {Render(Store, cache,
                          Append(dims, Dimension(None, M, None)),
                          Len(dims) + 1)} :
           /\ SetStore(r.s)
           /\ cache' = r.cache
           /\ last' = RenderCall(M, Len(dims) + 1, r)
    /\ dims' = Append(dims, Dimension(None, M, None))
    /\ prev' = IF last.op = "render" THEN last ELSE NoCall
    /\ UNCHANGED <<tborder, tcollapse, texpand>>

NextMax ==
    \/ \E M \in MaxWidths : RenderMax(M)
    \/ RenderTable

SpecMax == InitMax /\ [][NextMax]_vars

----------------------------------------------------------------------------
(* Width negotiation step by step: a call of calculate_col_widths, or of   *)
(* _calculate_col_widths itself, with a new Dimension; each round of the   *)
(* loop of expand or contract is a step.  `last` holds the locals of the   *)
(* call: pc is "expand" or "contract" inside a loop, "return" after the    *)
(* call has returned and "raise" after an IndexError.                      *)

\* the Dimension objects of a run: the table's and the caller's
MaxStepDims == 2

\* the cells of a table whose widths are negotiated step by step
MaxStepCells == 3

\* the (width, width of the text) of a cell: no width, or a width
StepCells == {<<0, 1>>, <<0, 4>>, <<3, 1>>}

\* the value of the one of min, max, preferred that the Dimension has
StepTargets == {0, 10, 16}

StepDimArgs ==
    UNION {{<<v, None, None>>, <<None, v, None>>, <<None, None, v>>} :
              v \in StepTargets}

\* the min_col_width arguments
MinColWidths == {1, 4, 6}

\* rows of cells
StepShapes ==
    {sh \in InitShapes :
        Len(sh[2]) = 0 /\ SeqSum(sh[1]) <= MaxStepCells}

\* Cell(text, width=...) for each cell of the lists
WithWidths(t, f) ==
    [t EXCEPT !.s.cells = [c \in DOMAIN @ |->
        [@[c] EXCEPT !.width = f[c][1], !.text = f[c][2]]]]

InitSteps ==
    \E sh \in StepShapes, e \in BOOLEAN :
        LET t == TableCtor(sh[1], sh[2])
        IN \E f \in [DOMAIN t.s.cells -> StepCells] :
               InitWith(WithWidths(t, f),
                        [DefaultOptions EXCEPT !.expand = e])

\* a call is inside one of its loops
Negotiating == last.op = "negotiate" /\ last.pc \in {"expand", "contract"}

\* the key of the lru_cache: the arguments of _calculate_col_widths
StepKey(c) ==
    IF c.direct
    THEN [cols |-> c.cols, dim |-> c.dim, expand |-> texpand,
          min_col_width |-> c.min_col_width]
    ELSE CacheKey(c.cols, c.dim)

\* "return col_widths": the lru_cache keeps the result
StepReturn(c) ==
    /\ last' = [c EXCEPT !.pc = "return"]
    /\ cache' = CachePut(cache, StepKey(c), c.widths)

\* the call up to its first loop test.  direct: _calculate_col_widths(
\* tuple(table.cols), Dimension(...), table.expand, m) is called, and
\* min_col_width is m; otherwise table.calculate_col_widths(Dimension(...),
\* min_col_width=m) is called, which passes cols, width and self.expand
\* on, so that min_col_width is the default.  The Dimension is a new
\* object, so no entry of the cache has the key.
NegotiateBegin(a, m, direct) ==
    /\ ~Negotiating
    /\ Len(dims) < MaxStepDims
    /\ dims' = Append(dims, Dimension(a[1], a[2], a[3]))
    /\ prev' = last
    /\ \E rc \in {ReadCols(Store)} :
       \E nat \in {NaturalWidths(rc.s, rc.v, 1, <<>>)} :
       \E cur \in {TotalWidth(nat.s, rc.v, nat.v)} :
       \E d \in {Decide(Dimension(a[1], a[2], a[3]), cur.v, texpand)} :
       \E c \in {[op |-> "negotiate", pc |-> d.act, direct |-> direct,
                   asked |-> m,
                   min_col_width |-> IF direct THEN m ELSE MinColWidth,
                   dim |-> Len(dims) + 1, cols |-> rc.v, natural |-> nat.v,
                   current |-> cur.v, target |-> d.target,
                   widths |-> nat.v]} :
           /\ SetStore(cur.s)
           /\ IF ~cur.ok
              THEN last' = [c EXCEPT !.pc = "raise"] /\ UNCHANGED cache
              ELSE IF d.act = "none" THEN StepReturn(c)
              ELSE last' = c /\ UNCHANGED cache
    /\ UNCHANGED <<tborder, tcollapse, texpand>>

\* a round of "while total_width(col_widths) < max_width"
ExpandStep ==
    /\ Negotiating
    /\ last.pc = "expand"
    /\ \E t \in {TotalWidth(Store, last.cols, last.widths)} :
           /\ t.ok
           /\ t.v < MaxWidth(last.target, last.widths, last.min_col_width)
           /\ \E b \in {ExpandOnce(t.s, last.cols, last.widths)} :
                  /\ SetStore(b.s)
                  /\ last' = [last EXCEPT !.widths = b.v]
    /\ prev' = last
    /\ UNCHANGED <<tborder, tcollapse, texpand, dims, cache>>

\* the test of the loop of expand fails
ExpandEnd ==
    /\ Negotiating
    /\ last.pc = "expand"
    /\ \E t \in {TotalWidth(Store, last.cols, last.widths)} :
           /\ t.ok
           /\ ~(t.v < MaxWidth(last.target, last.widths, last.min_col_width))
           /\ SetStore(t.s)
           /\ StepReturn(last)
    /\ prev' = last
    /\ UNCHANGED <<tborder, tcollapse, texpand, dims>>

\* a round of "while total_width(col_widths) > max_width"
ContractStep ==
    /\ Negotiating
    /\ last.pc = "contract"
    /\ \E t \in {TotalWidth(Store, last.cols, last.widths)} :
           /\ t.ok
           /\ t.v > MaxWidth(last.target, last.widths, last.min_col_width)
           /\ \E b \in {ContractOnce(t.s, last.cols, last.widths)} :
                  /\ SetStore(b.s)
                  /\ last' = [last EXCEPT !.widths = b.v]
    /\ prev' = last
    /\ UNCHANGED <<tborder, tcollapse, texpand, dims, cache>>

\* the test of the loop of contract fails
ContractEnd ==
    /\ Negotiating
    /\ last.pc = "contract"
    /\ \E t \in {TotalWidth(Store, last.cols, last.widths)} :
           /\ t.ok
           /\ ~(t.v > MaxWidth(last.target, last.widths, last.min_col_width))
           /\ SetStore(t.s)
           /\ StepReturn(last)
    /\ prev' = last
    /\ UNCHANGED <<tborder, tcollapse, texpand, dims>>

NextSteps ==
    \/ \E a \in StepDimArgs, m \in MinColWidths, direct \in BOOLEAN :
           NegotiateBegin(a, m, direct)
    \/ ExpandStep
    \/ ExpandEnd
    \/ ContractStep
    \/ ContractEnd

SpecSteps == InitSteps /\ [][NextSteps]_vars

\* the cells of the one row of a table whose negotiation is followed to
\* its end
MaxFairCells == 2

InitFair ==
    /\ InitSteps
    /\ Cardinality(DOMAIN trows) = 1
    /\ NUserCells <= MaxFairCells

\* a call that is inside a loop goes on: the interpreter runs the next
\* round of the loop, or leaves the loop and returns
SpecStepsFair ==
    /\ InitFair
    /\ [][NextSteps]_vars
    /\ WF_vars(ExpandStep \/ ExpandEnd \/ ContractStep \/ ContractEnd)

----------------------------------------------------------------------------
(* Border lines set on the table, on a row or column and on a cell: the    *)
(* border_line setters of Table, RowCol and Cell on a table made from rows *)
(* of cells.                                                               *)

\* the line styles a border_line is set to
EdgeLines == {NoLine, ThinLine, ThickLine}

\* the cells of a table whose border lines are set
MaxEdgeCells == 2

InitEdges ==
    \E sh \in BorderShapes :
        /\ SeqSum(sh[1]) <= MaxEdgeCells
        /\ InitWith(TableCtor(sh[1], sh[2]), DefaultOptions)

\* table.border_line = b
SetTableBorderLine(b) ==
    /\ tborder' = b
    /\ last' = [op |-> "set_border_line", of |-> "table", obj |-> 0]
    /\ prev' = NoCall
    /\ UNCHANGED <<cells, rcs, dicts, trows, tcols, tcollapse, texpand, dims,
                   cache>>

\* row.border_line = b / col.border_line = b
SetRCBorderLine(r, b) ==
    /\ rcs' = [rcs EXCEPT ![r].bl = b]
    /\ last' = [op |-> "set_border_line", of |-> rcs[r].type, obj |-> r]
    /\ prev' = NoCall
    /\ UNCHANGED <<cells, dicts, trows, tcols, tborder, tcollapse, texpand,
                   dims, cache>>

\* cell.border_line = b
SetCellBorderLine(c, b) ==
    /\ cells' = [cells EXCEPT ![c].bl = b]
    /\ last' = [op |-> "set_border_line", of |-> "cell", obj |-> c]
    /\ prev' = NoCall
    /\ UNCHANGED <<rcs, dicts, trows, tcols, tborder, tcollapse, texpand,
                   dims, cache>>

NextEdges ==
    \/ \E b \in EdgeLines : SetTableBorderLine(b)
    \/ \E r \in RowObjs \cup ColObjs, b \in EdgeLines : SetRCBorderLine(r, b)
    \/ \E c \in 1 .. Len(cells), b \in EdgeLines : SetCellBorderLine(c, b)

SpecEdges == InitEdges /\ [][NextEdges]_vars

----------------------------------------------------------------------------
(* The grid as the two maps describe it *)

\* the cell the row map holds at (row i, position j); -1 when it holds none
RowMapAt(i, j) ==
    IF i \in DOMAIN trows /\ j \in DOMAIN CellsOf(Store, trows[i])
    THEN CellsOf(Store, trows[i])[j] ELSE -1

\* the cell the column map holds at (column j, position i); -1 when none
ColMapAt(i, j) ==
    IF j \in DOMAIN tcols /\ i \in DOMAIN CellsOf(Store, tcols[j])
    THEN CellsOf(Store, tcols[j])[i] ELSE -1

IsSpacerOf(sp, c) ==
    sp > 0 /\ cells[sp].kind = "spacer" /\ cells[sp].expands = c

IsRealCell(c) == c > 0 /\ cells[c].kind = "cell"

----------------------------------------------------------------------------
(* C1 *)

\* the styles and characters of an output: the fragments without the
\* cells they were drawn from
Strip(out) ==
    [k \in DOMAIN out |-> [f \in DOMAIN out[k] \ {"at"} |-> out[k][f]]]

\* two consecutive render calls with the same width argument
RenderedTwice ==
    last.op = "render" /\ prev.op = "render" /\ last.arg = prev.arg

\* C1: two consecutive calls render(w) with the same width w, on a table
\* left unchanged between them, return identical output sequences.
C1_RenderIdempotent ==
    (RenderedTwice /\ prev.ok /\ last.ok) => Strip(last.out) = Strip(prev.out)

----------------------------------------------------------------------------
(* C2 *)

\* C2: render on a table with no rows and no columns returns the empty
\* sequence and does not raise.
C2_EmptyTableRendersEmpty ==
    (last.op = "render" /\ DOMAIN trows = {} /\ DOMAIN tcols = {}) =>
        (last.ok /\ last.out = <<>>)

----------------------------------------------------------------------------
(* C3, C4 *)

\* the Dimension of the last negotiation
LastWidth == dims[last.dim]

\* a calculate_col_widths call that ran _calculate_col_widths and returned
Negotiated == last.op = "calc" /\ last.ok /\ ~last.hit

\* len(col_widths) * min_col_width
MinTotal == Len(last.widths) * MinColWidth

\* C3: negotiating with a requested width of 0 returns widths whose total
\* width (the widths plus the border widths) is at least 4 for each of
\* the n columns, whatever the natural widths are.
C3_WidthFloor ==
    (Negotiated /\ LastWidth = Exact(0)) => last.total >= MinTotal

\* the result of expand(target): no column narrower than its natural
\* width, the total raised to the target or to the floor of the columns
Expanded(target) ==
    /\ last.total = IMax(target, MinTotal)
    /\ \A k \in DOMAIN last.widths : last.widths[k] >= last.natural[k]

\* the result of contract(target): no column wider than its natural width,
\* the total lowered to the target, but not below the floor of the columns
Contracted(target) ==
    /\ last.total = IMin(last.current, IMax(target, MinTotal))
    /\ \A k \in DOMAIN last.widths : last.widths[k] <= last.natural[k]

NotResized == last.widths = last.natural /\ last.total = last.current

\* C4: with a preferred width set the negotiation expands when the natural
\* total is below it and contracts when above, whatever minimum and maximum
\* are; otherwise with a maximum set it contracts when the natural total
\* exceeds the maximum and expands to it only if the expand flag is set;
\* otherwise with a minimum set and the natural total below it, it expands
\* to the minimum; in every other case the widths are the columns'
\* max_inner_width.
C4_Precedence ==
    Negotiated =>
        IF LastWidth.preferred_specified
        THEN /\ last.current < LastWidth.preferred =>
                    Expanded(LastWidth.preferred)
             /\ last.current > LastWidth.preferred =>
                    Contracted(LastWidth.preferred)
             /\ last.current = LastWidth.preferred => NotResized
        ELSE IF LastWidth.max_specified
        THEN /\ last.current > LastWidth.max => Contracted(LastWidth.max)
             /\ (last.current < LastWidth.max /\ texpand) =>
                    Expanded(LastWidth.max)
             /\ (last.current = LastWidth.max
                    \/ (last.current < LastWidth.max /\ ~texpand)) =>
                    NotResized
        ELSE IF LastWidth.min_specified /\ last.current < LastWidth.min
        THEN Expanded(LastWidth.min)
        ELSE NotResized

\* a negotiation that contracted to the preferred width although the
\* natural total was below the maximum
C4_Witness ==
    /\ Negotiated
    /\ LastWidth.preferred_specified /\ LastWidth.max_specified
    /\ LastWidth.preferred < last.current /\ last.current < LastWidth.max
    /\ last.total = LastWidth.preferred
    /\ last.widths # last.natural

----------------------------------------------------------------------------
(* C5 *)

\* C5: when render() reuses a negotiation result (the key repeats on a
\* table left unchanged), the reused widths are those a computation made
\* afresh at that moment returns.
C5_ReusedEqualsFresh ==
    [][(last'.op = "render" /\ last'.hit) =>
           With(CalculateColWidths(Store, <<>>, dims, last'.dim), LAMBDA f :
               f.ok => last'.widths = f.widths)]_vars

----------------------------------------------------------------------------
(* C6 *)

AddCellDone == last.op \in {"row_add_cell", "col_add_cell"} /\ last.ok

\* C6: after add_cell has placed a cell with colspan k at (row r, column
\* c), the row's map holds spacers of that cell at exactly the indices
\* c+1 .. c+k-1, each also registered at row r of its column; and a cell
\* with rowspan k has exactly k-1 spacers at rows r+1 .. r+k-1 of its
\* column, each also registered at position c of its row.
C6_SpansRegistered ==
    AddCellDone =>
        LET c == last.c
            r == last.ri
            ci == last.ci
            rowmap == CellsOf(Store, cells[c].row)
            colmap == CellsOf(Store, cells[c].col)
        IN /\ trows[r] = cells[c].row
           /\ tcols[ci] = cells[c].col
           /\ {k \in DOMAIN rowmap : IsSpacerOf(rowmap[k], c)}
                  = ci + 1 .. ci + cells[c].colspan - 1
           /\ \A k \in ci + 1 .. ci + cells[c].colspan - 1 :
                  ColMapAt(r, k) = rowmap[k]
           /\ {k \in DOMAIN colmap : IsSpacerOf(colmap[k], c)}
                  = r + 1 .. r + cells[c].rowspan - 1
           /\ \A k \in r + 1 .. r + cells[c].rowspan - 1 :
                  RowMapAt(k, ci) = colmap[k]

C6_Witness ==
    /\ AddCellDone
    /\ cells[last.c].colspan > 1
    /\ cells[last.c].rowspan > 1
    /\ IsSpacerOf(RowMapAt(last.ri, last.ci + 1), last.c)
    /\ IsSpacerOf(ColMapAt(last.ri + 1, last.ci), last.c)

----------------------------------------------------------------------------
(* C7 *)

\* w and e, side by side in a row, lie in one colspan run: e is a spacer
\* of the run and w is the spanning cell or another spacer of the run
InColspanRun(w, e) ==
    /\ w > 0 /\ e > 0
    /\ cells[e].kind = "spacer"
    /\ cells[cells[e].expands].colspan > 1
    /\ cells[e].row = cells[cells[e].expands].row
    /\ cells[w].expands = cells[e].expands
    /\ cells[w].row = cells[e].row

\* n above s in a column, both of one rowspan run
InRowspanRun(n, s) ==
    /\ n > 0 /\ s > 0
    /\ cells[s].kind = "spacer"
    /\ cells[cells[s].expands].rowspan > 1
    /\ cells[s].col = cells[cells[s].expands].col
    /\ cells[n].expands = cells[s].expands
    /\ cells[n].col = cells[s].col

\* a fragment of the output that shows a line inside a merged cell: a
\* vertical border between the cells of a colspan run, a junction with an
\* arm between them, or a horizontal edge between the cells of a rowspan run
Seam(f) ==
    \/ /\ f.t = "border"
       /\ InColspanRun(f.at[1], f.at[2])
       /\ f.n > 0 /\ f.g # NoLine
    \/ /\ f.t = "node"
       /\ \/ InColspanRun(f.at[4], f.at[3]) /\ f.g[3] # NoLine
          \/ InColspanRun(f.at[1], f.at[2]) /\ f.g[1] # NoLine
    \/ /\ f.t = "edge"
       /\ InRowspanRun(f.at[1], f.at[2])
       /\ f.n > 0 /\ f.g # NoLine

\* C7: the output of render shows no seam inside a merged cell: no vertical
\* border between a spanning cell and its spacers, no junction arm pointing
\* into a colspan run, no visible horizontal segment between a rowspan cell
\* and its spacer below.
C7_NoSeams ==
    (last.op = "render" /\ last.ok) =>
        \A k \in DOMAIN last.out : ~Seam(last.out[k])

----------------------------------------------------------------------------
(* C8 *)

\* C8: after add_row(row) with a row that already holds cells, each cell
\* of the row (position j of the row at index i) is found at position i of
\* column j, and the table has at least as many columns as the row has
\* cells; symmetrically for add_col.
C8_AddRowSyncsCols ==
    /\ (last.op = "add_row" =>
           /\ \A j \in DOMAIN CellsOf(Store, last.rc) :
                  IsRealCell(RowMapAt(last.index, j)) =>
                      ColMapAt(last.index, j) = RowMapAt(last.index, j)
           /\ Cardinality(DOMAIN tcols) >= Len(last.given))
    /\ (last.op = "add_col" =>
           /\ \A i \in DOMAIN CellsOf(Store, last.rc) :
                  IsRealCell(ColMapAt(i, last.index)) =>
                      RowMapAt(i, last.index) = ColMapAt(i, last.index)
           /\ Cardinality(DOMAIN trows) >= Len(last.given))

----------------------------------------------------------------------------
(* C9 *)

\* C9: immediately after Table(rows=..., cols=...), every cell supplied in
\* a row (row i, position j) or in a column (column j, position i) is
\* found in the row map at (i, j) and in the column map at (j, i).
C9_CtorSyncsBoth ==
    last.op = "init" =>
        /\ \A t \in last.rowCells :
               RowMapAt(t[1], t[2]) = t[3] /\ ColMapAt(t[1], t[2]) = t[3]
        /\ \A t \in last.colCells :
               RowMapAt(t[2], t[1]) = t[3] /\ ColMapAt(t[2], t[1]) = t[3]

----------------------------------------------------------------------------
(* C10 *)

\* C10: every cell (not a spacer, not a dummy) stored at position j of the
\* table's row i has that row object as its row, the table's column j as
\* its column, and is stored at no other position of any row.
C10_BackRefs ==
    \A i \in DOMAIN trows : \A j \in DOMAIN CellsOf(Store, trows[i]) :
        LET c == RowMapAt(i, j)
        IN IsRealCell(c) =>
               /\ cells[c].row = trows[i]
               /\ j \in DOMAIN tcols /\ cells[c].col = tcols[j]
               /\ \A i2 \in DOMAIN trows :
                      \A j2 \in DOMAIN CellsOf(Store, trows[i2]) :
                          RowMapAt(i2, j2) = c => (i2 = i /\ j2 = j)

----------------------------------------------------------------------------
(* C11 *)

----------------------------------------------------------------------------
(* C12 *)

\* new_cell on a row (column) that the table's map holds has returned or
\* raised
AddCellCalled ==
    \/ last.op = "row_add_cell" /\ last.rc \in Values(trows)
    \/ last.op = "col_add_cell" /\ last.rc \in Values(tcols)

\* the key under which the table's map holds the row (column) of the call
KeyOf(m, rc) == CHOOSE k \in DOMAIN m : m[k] = rc

\* the grid position (row r, column c) the new cell was added at
AddedRow == IF last.op = "row_add_cell" THEN KeyOf(trows, last.rc) ELSE last.ri

AddedCol == IF last.op = "col_add_cell" THEN KeyOf(tcols, last.rc) ELSE last.ci

\* the span of the new cell reached past the last row or the last column
\* the table had at the time of the call
PastBounds ==
    \/ /\ cells[last.c].colspan > 1
       /\ AddedCol + cells[last.c].colspan - 1 > SetMax({-1} \cup last.before.cols)
    \/ /\ cells[last.c].rowspan > 1
       /\ AddedRow + cells[last.c].rowspan - 1 > SetMax({-1} \cup last.before.rows)

\* C12: adding a cell whose colspan or rowspan reaches past the last column
\* or row of the table never raises; afterwards the column map has the keys
\* up to c+colspan-1 and the row map the keys up to r+rowspan-1, and these
\* rows and columns hold the spacers of the cell.
C12_SpansExtend ==
    (AddCellCalled /\ PastBounds) =>
        /\ last.ok
        /\ \A i \in 0 .. cells[last.c].colspan - 1 :
               /\ AddedCol + i \in DOMAIN tcols
               /\ i > 0 => IsSpacerOf(ColMapAt(AddedRow, AddedCol + i), last.c)
        /\ \A i \in 0 .. cells[last.c].rowspan - 1 :
               /\ AddedRow + i \in DOMAIN trows
               /\ i > 0 => IsSpacerOf(RowMapAt(AddedRow + i, AddedCol), last.c)

----------------------------------------------------------------------------
(* C13 *)

\* the cell of a row at position j: a DummyCell for no row and for a row
\* that ends before j
CellAt(row, j) ==
    IF row # NoRow /\ j \in DOMAIN CellsOf(Store, row)
    THEN CellsOf(Store, row)[j] ELSE DUMMY

\* the positions of the boundary between the two rows of the call
BoundaryCols ==
    UNION {DOMAIN CellsOf(Store, r) : r \in {last.above, last.below} \ {NoRow}}

\* the horizontal edge at position j of the boundary is visible
VisibleEdgeAt(j) ==
    Visible(LineMax(ComputedBorderLine(Store, CellAt(last.above, j)).bottom,
                    ComputedBorderLine(Store, CellAt(last.below, j)).top))

EndsInOneNewline(out) ==
    /\ Len(out) > 0
    /\ out[Len(out)] = Newline
    /\ \A k \in 1 .. Len(out) - 1 : out[k].t # "nl"

\* C13: with collapse enabled, draw_border_row returns the empty sequence
\* when no horizontal edge of the row boundary is visible; with collapse
\* enabled and a visible horizontal edge, or with collapse disabled, it
\* returns a sequence that ends in exactly one line separator.
C13_CollapseRule ==
    last.op = "border" =>
        IF last.collapse /\ ~ \E j \in BoundaryCols : VisibleEdgeAt(j)
        THEN last.out = <<>>
        ELSE EndsInOneNewline(last.out)

----------------------------------------------------------------------------
(* C14 *)

\* the lines of an output: the fragments between the line separators
RECURSIVE SplitLines(_, _, _)
SplitLines(out, k, cur) ==
    IF k > Len(out) THEN <<cur>>
    ELSE IF out[k].t = "nl" THEN <<cur>> \o SplitLines(out, k + 1, <<>>)
    ELSE SplitLines(out, k + 1, Append(cur, out[k]))

OutputLines(out) == IF Len(out) = 0 THEN <<>> ELSE SplitLines(out, 1, <<>>)

\* what a line shows: a border row, or the content of cells (in order)
LineShows(line) ==
    IF \E k \in 1 .. Len(line) : line[k].t \in {"node", "edge"}
    THEN [kind |-> "border", cells |-> <<>>]
    ELSE With(SelectSeq(line, LAMBDA f : f.t = "text"), LAMBDA texts :
             [kind |-> "content",
              cells |-> [k \in 1 .. Len(texts) |-> texts[k].at[1]]])

\* the rows of the table after the call, in order
RowsNow == ReadRows(Store).v

\* the lines of the text of the tallest cell of a row; a row without cells
\* has none
Tallest(cs) ==
    SetMax({0} \cup {IF cs[k] = DUMMY THEN 1 ELSE cells[cs[k]].lines :
                         k \in 1 .. Len(cs)})

\* the lines of a row, each of them showing its cells, but for the spacers
\* inside a colspan
RowShows(row) ==
    With(CellsList(CellsOf(Store, row)), LAMBDA cs :
        [l \in 1 .. Tallest(cs) |->
            [kind |-> "content",
             cells |-> SelectSeq(cs, LAMBDA c : ~InColspan(Store, c))]])

\* the border row of the k-th boundary (the first is above row 1, the last
\* below the last row), when it is not collapsed
BoundaryShows(k) ==
    With(<<NoRow>> \o RowsNow \o <<NoRow>>, LAMBDA rs :
        IF DrawBorderRow(Store, rs[k], rs[k + 1], last.widths, tcollapse).v
               = <<>>
        THEN <<>> ELSE <<[kind |-> "border", cells |-> <<>>]>>)

\* border rows and content rows alternating in row order
RECURSIVE ExpectedFrom(_)
ExpectedFrom(k) ==
    IF k > Len(RowsNow) + 1 THEN <<>>
    ELSE BoundaryShows(k)
         \o (IF k <= Len(RowsNow) THEN RowShows(RowsNow[k]) ELSE <<>>)
         \o ExpectedFrom(k + 1)

----------------------------------------------------------------------------
(* C15: the steps of expansion *)

\* a call of the negotiation is in state pc, and pc2 after the step
StepFromTo(pc, pc2) ==
    /\ last.op = "negotiate" /\ last.pc = pc
    /\ last'.op = "negotiate" /\ last'.pc = pc2

\* the total width of the widths w of the call c: the columns and their
\* borders, which the call found to be c.current for the widths c.natural
StepTotal(c, w) == SeqSum(w) + (c.current - SeqSum(c.natural))

\* the bound the total width is driven to
StepBound(c, m) == IF c.target >= Len(c.widths) * m THEN c.target
                   ELSE Len(c.widths) * m

\* the columns of the call none of whose cells declares a width
Unpinned(c) ==
    {k \in 1 .. Len(c.cols) :
        \A j \in DOMAIN CellsOf(Store, c.cols[k]) :
            \/ CellsOf(Store, c.cols[k])[j] = DUMMY
            \/ cells[CellsOf(Store, c.cols[k])[j]].width = 0}

\* the columns whose width the step changes
Changed(w, w2) == {k \in 1 .. Len(w) : w2[k] # w[k]}

----------------------------------------------------------------------------
(* C16: the steps of contraction *)

\* C16: every step of a contraction subtracts exactly 1 from a column of
\* greatest width; the total width never gets below max(target, number of
\* columns * min_col_width), a contraction that starts at or below that
\* bound changes nothing, and no column width gets negative.
C16_ContractSteps ==
    [][/\ StepFromTo("contract", "contract") =>
           \E i \in 1 .. Len(last.widths) :
               /\ Changed(last.widths, last'.widths) = {i}
               /\ last'.widths[i] = last.widths[i] - 1
               /\ \A j \in 1 .. Len(last.widths) :
                      last.widths[i] >= last.widths[j]
               /\ StepTotal(last, last'.widths)
                      >= StepBound(last, last.min_col_width)
               /\ \A j \in 1 .. Len(last.widths) : last'.widths[j] >= 0
       /\ StepFromTo("contract", "return") =>
               /\ last'.widths = last.widths
               /\ (StepTotal(last, last.natural)
                       <= StepBound(last, last.min_col_width)
                    => last.widths = last.natural)]_vars

----------------------------------------------------------------------------
(* C17: min_col_width as an argument of calculate_col_widths *)

\* C17: table.calculate_col_widths(width, min_col_width=m) that expands
\* toward a target ends with the total width max(target, number of columns
\* * m).
C17_FloorIsArgument ==
    (/\ last.op = "negotiate"
     /\ ~last.direct
     /\ last.pc = "return"
     /\ prev.op = "negotiate"
     /\ prev.pc = "expand") =>
        StepTotal(last, last.widths) = StepBound(last, last.asked)

----------------------------------------------------------------------------
(* C18: where add_row and add_col put the new row or column *)

\* the row (column) at index i of the map m holds cells, all of them
\* spacers
SpacersOnly(m, i) ==
    /\ DOMAIN CellsOf(Store, m[i]) # {}
    /\ \A k \in DOMAIN CellsOf(Store, m[i]) :
           IsSpacer(Store, CellsOf(Store, m[i])[k])

\* the lowest index that holds nothing but spacers, else the number of
\* rows (columns)
Lands(m) ==
    IF \E i \in DOMAIN m : SpacersOnly(m, i)
    THEN SetMin({i \in DOMAIN m : SpacersOnly(m, i)})
    ELSE Cardinality(DOMAIN m)

\* after the call the map m2 holds the new row (column) at the index, and
\* the row holds, each at its position, the cells the index held in m
\* before, and every cell the new row was given
Kept(m, m2) ==
    LET i == last'.index
        new == dicts'[rcs'[last'.rc].d]
    IN /\ m2[i] = last'.rc
       /\ i \in DOMAIN m =>
              \A k \in DOMAIN CellsOf(Store, m[i]) :
                  k \in DOMAIN new /\ new[k] = CellsOf(Store, m[i])[k]
       /\ \A j \in 1 .. Len(last'.given) :
              \E k \in DOMAIN new : new[k] = last'.given[j]

\* C18: add_row puts the new row at the lowest row index that holds
\* nothing but spacer cells, and otherwise at index = the number of rows;
\* the row then holds every spacer the index held and every cell of the
\* new row.  The same for add_col and columns.
C18_AddRowLands ==
    [][/\ last'.op = "add_row" =>
               last'.index = Lands(trows) /\ Kept(trows, trows')
       /\ last'.op = "add_col" =>
               last'.index = Lands(tcols) /\ Kept(tcols, tcols')]_vars

----------------------------------------------------------------------------
(* C19: the index add_cell stores the new cell at *)

\* the lowest index the map f does not use
LowestUnused(f) == SetMin((0 .. Cardinality(DOMAIN f)) \ DOMAIN f)

\* C19: Row.add_cell (Col.add_cell) stores the new cell at the lowest index
\* the row's (column's) map does not use yet, also when the map holds a
\* spacer at a higher index.
C19_LowestUnusedIndex ==
    [][/\ last'.op = "row_add_cell" =>
           /\ last'.ci = LowestUnused(CellsOf(Store, last'.rc))
           /\ dicts'[rcs'[last'.rc].d][last'.ci] = last'.c
       /\ last'.op = "col_add_cell" =>
           /\ last'.ri = LowestUnused(CellsOf(Store, last'.rc))
           /\ dicts'[rcs'[last'.rc].d][last'.ri] = last'.c]_vars

----------------------------------------------------------------------------
(* C20: the border line of a spacer *)

Spacers == {c \in 1 .. Len(cells) : cells[c].kind = "spacer"}

\* the spacer is in the colspan run of its expanding cell: in its row, in
\* another column
InColspanRunOf(sp) ==
    /\ cells[sp].row = cells[cells[sp].expands].row
    /\ cells[sp].col # cells[cells[sp].expands].col

\* the spacer is in the rowspan run of its expanding cell: in its column,
\* in another row
InRowspanRunOf(sp) ==
    /\ cells[sp].col = cells[cells[sp].expands].col
    /\ cells[sp].row # cells[cells[sp].expands].row

\* C20: the border line of a spacer is on every edge that of its expanding
\* cell, but for the edge inside the spanned region, which is invisible:
\* the left edge of a spacer in the colspan run, the top edge of a spacer
\* in the rowspan run.
C20_SpacerEdges ==
    \A sp \in Spacers :
        LET b == ComputedBorderLine(Store, cells[sp].expands)
            s == ComputedBorderLine(Store, sp)
        IN /\ s.right = b.right
           /\ s.bottom = b.bottom
           /\ s.left = IF InColspanRunOf(sp) THEN InvisibleLine ELSE b.left
           /\ s.top = IF InRowspanRunOf(sp) THEN InvisibleLine ELSE b.top

----------------------------------------------------------------------------
(* C21: the border line of a cell *)

Edges == {"top", "right", "bottom", "left"}

\* the most severe of the line styles set on the cell, its row, its column
\* and the table
MostSevere(c) ==
    SetMax({cells[c].bl, RCBorderLine(Store, cells[c].row),
            RCBorderLine(Store, cells[c].col), tborder})

\* C21: on every edge the computed border line of a cell is the most
\* severe (none < thin < thick) of the line styles set for the edge on the
\* table, the row, the column and the cell.
C21_MostSevereLine ==
    \A c \in 1 .. Len(cells) : \A e \in Edges :
        ComputedBorderLine(Store, c)[e] = MostSevere(c)

----------------------------------------------------------------------------
(* C22: the border width of a cell *)

\* the edge e of the cell at grid position (i, j), if there is one, is
\* visible
VisibleAt(i, j, e) ==
    /\ RowMapAt(i, j) > 0
    /\ Visible(ComputedBorderLine(Store, RowMapAt(i, j))[e])

\* the edge e of the cell at (i, j), or the opposite edge of the cell next
\* to it on that side, is visible
EdgeShown(i, j, e) ==
    \/ VisibleAt(i, j, e)
    \/ e = "top" /\ VisibleAt(i - 1, j, "bottom")
    \/ e = "bottom" /\ VisibleAt(i + 1, j, "top")
    \/ e = "left" /\ VisibleAt(i, j - 1, "right")
    \/ e = "right" /\ VisibleAt(i, j + 1, "left")

\* C22: with collapse_empty_borders the computed border width of a cell of
\* the table is on each edge 0 or 1, and 1 exactly when the cell's edge or
\* the adjacent cell's opposite edge is visible.
C22_BorderWidth ==
    tcollapse =>
        \A i \in DOMAIN trows : \A j \in DOMAIN CellsOf(Store, trows[i]) :
            \A e \in Edges :
                RowMapAt(i, j) > 0 =>
                    /\ ComputedBorderWidth(Store, RowMapAt(i, j)) \in {0, 1}
                    /\ ComputedBorderWidth(Store, RowMapAt(i, j)) = 1
                           <=> EdgeShown(i, j, e)

----------------------------------------------------------------------------
(* C23: the glyphs of a border row *)

\* how many of the fragments before position p are runs
RunsBefore(out, p) ==
    Cardinality({q \in 1 .. p - 1 : out[q].t = "edge"})

\* the arm two edges give: the more severe of the two, blank when that is
\* not a visible line
Arm(a, b) ==
    IF SetMax({a, b}) >= ThinLine THEN SetMax({a, b}) ELSE NoLine

\* the border line of the cell at position j of the row above / below the
\* boundary of the call, a placeholder standing in where there is none
LineAbove(j) == ComputedBorderLine(Store, CellAt(last.above, j))

LineBelow(j) == ComputedBorderLine(Store, CellAt(last.below, j))

\* the arms north, east, south, west of the intersection left of column i
ArmsAt(i) ==
    <<Arm(LineAbove(i - 1).right, LineAbove(i).left),
      Arm(LineAbove(i).bottom, LineBelow(i).top),
      Arm(LineBelow(i).left, LineBelow(i - 1).right),
      Arm(LineBelow(i - 1).top, LineAbove(i - 1).bottom)>>

\* the table has a column for every cell of the two rows of the call
ColumnsForAll ==
    \A r \in {last.above, last.below} \ {NoRow} :
        DOMAIN CellsOf(Store, r) \subseteq DOMAIN tcols

\* C23: in a border row the glyph of every intersection has the arms
\* north = max(NW.right, NE.left), east = max(NE.bottom, SE.top),
\* south = max(SE.left, SW.right), west = max(SW.top, NW.bottom) of the
\* four cells around it, a placeholder standing in where there is no cell;
\* the glyph of the run of a column is the more severe of the bottom edge
\* of the cell above and the top edge of the cell below.
C23_Glyphs ==
    (last.op = "border" /\ ColumnsForAll) =>
        \A p \in 1 .. Len(last.out) :
            /\ last.out[p].t = "node" =>
                   last.out[p].g = ArmsAt(RunsBefore(last.out, p))
            /\ last.out[p].t = "edge" =>
                   last.out[p].g = Arm(LineAbove(RunsBefore(last.out, p)).bottom,
                                       LineBelow(RunsBefore(last.out, p)).top)

----------------------------------------------------------------------------
(* C24: the width of the lines of the output *)

\* the display width of a line: the characters of its fragments
DisplayWidth(line) == SeqSum([k \in 1 .. Len(line) |-> line[k].n])

\* C24: every line of the output of render has the same display width.
C24_EqualLineWidths ==
    (last.op = "render" /\ last.ok) =>
        With(OutputLines(last.out), LAMBDA lines :
            \A j, k \in 1 .. Len(lines) :
                DisplayWidth(lines[j]) = DisplayWidth(lines[k]))

----------------------------------------------------------------------------
(* C25: add_row and add_col keep the rows and columns of the table *)

\* no cell has a span, the cell of the call included
NoSpans == \A c \in 1 .. Len(cells') : cells'[c].colspan = 1 /\ cells'[c].rowspan = 1

\* C25: on a table without spanning cells add_row adds one row to the
\* table and every row the table held is still in it, and add_cell on a
\* row that was added to the table succeeds.  The same for add_col.
C25_RowsKept ==
    [][NoSpans =>
        /\ last'.op = "add_row" =>
               /\ Values(trows) \subseteq Values(trows')
               /\ Cardinality(DOMAIN trows') = Cardinality(DOMAIN trows) + 1
        /\ last'.op = "add_col" =>
               /\ Values(tcols) \subseteq Values(tcols')
               /\ Cardinality(DOMAIN tcols') = Cardinality(DOMAIN tcols) + 1
        /\ (last'.op \in {"row_add_cell", "col_add_cell"}
               /\ rcs[last'.rc].user) => last'.ok]_vars

----------------------------------------------------------------------------
(* C26: the output under a maximum width *)

\* the Dimension of the call has a maximum and nothing else
OnlyMax(d) ==
    /\ d.max_specified
    /\ ~d.min_specified
    /\ ~d.preferred_specified

\* C26: when the width has only a maximum M, and M is at least the number
\* of columns * 4, no line of the output of render is wider than M.
C26_WithinMaximum ==
    (/\ last.op = "render"
     /\ last.ok
     /\ OnlyMax(dims[last.dim])
     /\ dims[last.dim].max >= Len(last.cols) * MinColWidth) =>
        With(OutputLines(last.out), LAMBDA lines :
            \A k \in 1 .. Len(lines) :
                DisplayWidth(lines[k]) <= dims[last.dim].max)

----------------------------------------------------------------------------
(* C27: the rectangle of a cell with both spans *)

\* C27: after add_cell has placed a cell with colspan k and rowspan r at
\* (row i, column j), every grid position (i+a, j+b) with 0 <= a < r and
\* 0 <= b < k other than (i, j) holds a spacer of that cell.
C27_SpannedRectangle ==
    AddCellDone =>
        \A a \in 0 .. cells[last.c].rowspan - 1 :
            \A b \in 0 .. cells[last.c].colspan - 1 :
                <<a, b>> # <<0, 0>> =>
                    IsSpacerOf(RowMapAt(last.ri + a, last.ci + b), last.c)

----------------------------------------------------------------------------
(* C28: reading is free of side effects *)

\* C28: render, which only reads Table.rows, Table.cols, Row.cells and
\* Col.cells, leaves the key sets of the row map, of the column map and of
\* the cell map of every row and column unchanged, and makes no new row,
\* column or cell map.
C28_ReadsKeepKeys ==
    [][last'.op = "render" =>
          /\ DOMAIN trows' = DOMAIN trows
          /\ DOMAIN tcols' = DOMAIN tcols
          /\ Len(rcs') = Len(rcs)
          /\ Len(dicts') = Len(dicts)
          /\ \A d \in 1 .. Len(dicts) : DOMAIN dicts'[d] = DOMAIN dicts[d]]_vars

----------------------------------------------------------------------------
(* C29: render on every table new_row, new_col and new_cell can build *)

\* C29: render returns, without raising, on every table that new_row,
\* new_col and new_cell have given a column, also when a row or a column
\* has no cell.
C29_RenderCompletes ==
    (last.op = "render" /\ Len(last.cols) > 0) => last.ok

----------------------------------------------------------------------------
(* C30: the negotiation terminates *)

\* C30: a call of the width negotiation that has entered the loop of
\* expand or the loop of contract leaves it after finitely many rounds:
\* the call returns.
C30_Terminates == Negotiating ~> (last.op = "negotiate" /\ last.pc = "return")

\* a contraction to the target 0 has ended after more than one round
C30_Witness ==
    /\ last.op = "negotiate"
    /\ last.pc = "return"
    /\ last.target = 0
    /\ SeqSum(last.widths) < SeqSum(last.natural) - 1

====
